---- MODULE Spec2Model ----
(***************************************************************************)
(* Model of the libcaer DAVIS / MIPI-CX3 event decoders:                   *)
(*   - the current DAVIS decoder   (src/src/davis.c, lines 1..3767),       *)
(*   - the legacy DAVIS decoder    (src/src/davis.c, lines 3768..6900),    *)
(*   - the MIPI-CX3 decoder        (src/unnamed/part_000).                 *)
(* A 16-bit (32-bit for MIPI) protocol unit is an integer; every loop      *)
(* iteration of a translator, commit included, is one action.              *)
(***************************************************************************)
EXTENDS Integers, Sequences, FiniteSets, TLC

VARIABLES
    dev,        \* which decoder this run drives: "davis", "legacy" or "mipi"
    units,      \* the protocol units the USB side may deliver in this run
    running,    \* usbState.dataTransfersRun / dataAcquisitionThreadRun
    pc,         \* position of the producer (USB callback) thread
    unitsLeft,  \* units of the current buffer not yet decoded
    state,      \* the decoder state of the device (davisCommonState, the legacy
                \* davisState or mipiCx3State, as dev says)
    ring,       \* the data exchange ring buffer: a FIFO of Containers
    cons,       \* the consumer thread: position and the Containers it got
    notify,     \* the external occupancy counter driven by the callbacks
    ev,         \* log of the last producer step (history variable)
    buf         \* the USB buffer of the invocation: the lengths this run may
                \* deliver, bytesSent as passed and the loop index

vars == <<dev, units, running, pc, unitsLeft, state, ring, cons, notify, ev, buf>>

----------------------------------------------------------------------------
(* Bounds of the model.                                                    *)

MaxUnits == 1
\* units per USB buffer
PacketDefaultSize == 1
\* stand-in for DAVIS_*_DEFAULT_SIZE / max*PacketSize (initial packet capacity)
MaxPacketSize == 2
\* configured maximum container packet size (commit trigger 3); the packet
\* capacity of the legacy decoder (max*PacketSize)
MaxInterval == 2
\* configured maximum container interval (commit trigger 4)
RingSize == 2
\* capacity of the data exchange ring buffer
MaxContainerSize == 3
\* configured maximum number of events of a legacy Container (maxPacketContainerSize)
MipiDefaultSize == 16
\* stand-in for MIPI_CX3_*_DEFAULT_SIZE: room for the 16 events of a group
MaxIds == 12
\* packet instances the allocator can have live at one time
MaxCount == 2
\* cap on the APS column counters (uint16_t in the code)
MaxImuCount == 15
\* cap on the IMU step counter (uint8_t in the code)
RoiSize == 1
\* ROI columns and rows (expectedCountX, expectedCountY)
MaxWrapSteps == 2
\* wrap units are fed only this close to the 32-bit boundary
MaxSteps == 5
\* units a run of the legacy decoder decodes (caps the history counters)

MaxBufferUnits == 2
\* whole units of the longest USB buffer in the runs about buffer lengths

MaxInsert == 5
\* events inserted into one packet in the runs about packet growth
MaxRoiUpdates == 4
\* cap on the ROI update counter (uint8_t in the code)
MaxOffset == 3
\* cap on the RGB row offset of the DAVIS640H (int16_t in the code)
MaxCapacity == 32
\* largest packet capacity handed to ensureSpaceForEvents on its own

(* Program constants.                                                      *)
TS_WRAP_ADD == 32768
INT32_MAX == 2147483647
IMU_TOTAL_COUNT == 14
IMU6_COUNT == 15

PacketTypes == {"polarity", "special", "frame", "imu6"}
ReadoutTypes == {"RESET", "SIGNAL"}
ImuTypes == {"ACCEL", "GYRO", "TEMP"}

(* A NULL packet / container pointer.                                      *)
NULL == [id |-> 0, capacity |-> 0, tsOverflow |-> 0, events |-> <<>>]
NoContainer == [alloc |-> FALSE, seq |-> 0, packets |-> [t \in PacketTypes |-> NULL]]
EmptyContainer == [alloc |-> TRUE, seq |-> 0, packets |-> [t \in PacketTypes |-> NULL]]

(* Bit fields of a 16-bit unit.                                            *)
IsTimestamp(event) == event >= 32768
Code(event) == (event \div 4096) % 8
Data(event) == event % 4096
Unit(code, data) == code * 4096 + data

Min(a, b) == IF a < b THEN a ELSE b

----------------------------------------------------------------------------
(* Event packets (caerEventPacketAllocate / caerEventPacketGrow).          *)

PacketAllocate(id, capacity, tsOverflow) ==
    [id |-> id, capacity |-> capacity, tsOverflow |-> tsOverflow, events |-> <<>>]

(* An ensureSpaceForEvents that reports room without growing the packet.   *)
ensureSpaceNoGrow(packet, position, numEvents, g) ==
    IF position + numEvents <= packet.capacity \/ g
    THEN [ok |-> TRUE, packet |-> packet]
    ELSE [ok |-> FALSE, packet |-> packet]

(* An ensureSpaceForEvents that grows the packet by one event.             *)
ensureSpaceGrowsByOne(packet, position, numEvents, g) ==
    IF position + numEvents <= packet.capacity
    THEN [ok |-> TRUE, packet |-> packet]
    ELSE IF ~g
         THEN [ok |-> FALSE, packet |-> packet]
         ELSE [ok |-> TRUE, packet |-> [packet EXCEPT !.capacity = @ + 1]]

(* ensureSpaceForEvents: g tells whether caerEventPacketGrow succeeds.     *)
ensureSpaceForEvents(packet, position, numEvents, g) ==
    IF position + numEvents <= packet.capacity
    THEN [ok |-> TRUE, packet |-> packet]
    ELSE IF ~g
         THEN [ok |-> FALSE, packet |-> packet]
         ELSE [ok |-> TRUE, packet |-> [packet EXCEPT !.capacity = @ * 2]]

(* What the last loop iteration did (history, never read by the decoder):  *)
(* events appended and refused per packet type, the commit and the         *)
(* Containers handed to the data exchange.                                 *)
EmptyLog ==
    [appended |-> [t \in PacketTypes |-> 0], refused |-> {}, commit |-> FALSE,
     forced |-> FALSE, atCommit |-> [t \in PacketTypes |-> 0], attached |-> {},
     attachedIds |-> {}, sealed |-> 0, dropped |-> 0]

(* A write that advances the write position although there is no room.    *)
PutEventAdvancesAnyway(s, t, e, g) ==
    LET r == ensureSpaceForEvents(s.currentPackets.packet[t], s.currentPackets.position[t], 1, g[t])
    IN IF r.ok
       THEN [s EXCEPT !.currentPackets.packet[t] = [r.packet EXCEPT !.events = Append(@, e)],
                      !.currentPackets.position[t] = @ + 1,
                      !.log.appended[t] = @ + 1]
       ELSE [s EXCEPT !.log.refused = @ \cup {t}, !.currentPackets.position[t] = @ + 1]

(* Write one event at the write position and advance it.                   *)
PutEvent(s, t, e, g) ==
    LET r == ensureSpaceForEvents(s.currentPackets.packet[t], s.currentPackets.position[t], 1, g[t])
    IN IF r.ok
       THEN [s EXCEPT !.currentPackets.packet[t] = [r.packet EXCEPT !.events = Append(@, e)],
                      !.currentPackets.position[t] = @ + 1,
                      !.log.appended[t] = @ + 1]
       ELSE [s EXCEPT !.log.refused = @ \cup {t}]

SpecialEvent(ts, type) == [timestamp |-> ts, type |-> type]

----------------------------------------------------------------------------
(* Timestamp engine of the current decoder (handleTimestamp*NewLogic).     *)

handleTimestampUpdateNewLogic(ts, event) ==
    [ts EXCEPT !.last = ts.current, !.current = ts.wrapAdd + (event % 32768)]

(* Returns the new timestamps and whether the wrap crossed INT32_MAX.  The *)
(* code adds in 64 bits; here the sum is compared and reduced without      *)
(* leaving 32 bits: wrapSum > INT32_MAX iff wrapJump > INT32_MAX - wrapAdd. *)
handleTimestampWrapNewLogic(ts, data, wrapAdd) ==
    LET wrapJump == wrapAdd * data
        room == INT32_MAX - ts.wrapAdd
    IN IF wrapJump > room
       THEN [bigWrap |-> TRUE,
             ts |-> [ts EXCEPT !.wrapAdd = wrapJump - room - 1,
                               !.last = 0,
                               !.current = wrapJump - room - 1,
                               !.wrapOverflow = @ + 1]]
       ELSE [bigWrap |-> FALSE,
             ts |-> [ts EXCEPT !.wrapAdd = ts.wrapAdd + wrapJump,
                               !.last = ts.current,
                               !.current = ts.wrapAdd + wrapJump]]

handleTimestampResetNewLogic(ts) ==
    [wrapOverflow |-> 0, wrapAdd |-> 0, last |-> 0, current |-> 0]

(* Container generation: the commit timestamp of the time trigger.         *)
containerGenerationCommitTimestampReset(c) == [c EXCEPT !.commitTimestamp = -1]

containerGenerationCommitTimestampInit(c, current) ==
    IF c.commitTimestamp = -1 THEN [c EXCEPT !.commitTimestamp = current] ELSE c

containerGenerationIsCommitTimestampElapsed(c, wrapOverflow, current) ==
    c.commitTimestamp # -1 /\ current - c.commitTimestamp > MaxInterval

containerGenerationGetMaxPacketSize(c) == MaxPacketSize

----------------------------------------------------------------------------
(* APS frame reconstructor of the current decoder.                         *)

(* A frame start that leaves the counters of the last frame.               *)
apsInitFrameKeepsCounts(s, g) ==
    PutEvent([s EXCEPT !.aps.ignoreEvents = FALSE, !.aps.frame.tsStartFrame = s.timestamps.current],
             "special", SpecialEvent(s.timestamps.current, "APS_FRAME_START"), g)

apsInitFrame(s, g) ==
    LET s1 == [s EXCEPT !.aps.ignoreEvents = FALSE,
                        !.aps.autoExposure = [tmpData |-> 0, currentFrameExposure |-> 0],
                        !.aps.roi.tmpData = 0,
                        !.aps.roi.update = 0,
                        !.aps.currentReadoutType = "RESET",
                        !.aps.countX = [i \in ReadoutTypes |-> 0],
                        !.aps.countY = [i \in ReadoutTypes |-> 0],
                        !.aps.frame.tsStartFrame = s.timestamps.current]
    IN PutEvent(s1, "special", SpecialEvent(s.timestamps.current, "APS_FRAME_START"), g)

(* A double sampling without the white-pixel filter and the upper clamp.   *)
apsCDSUnfiltered(resetValue, signalValue) ==
    LET raw == resetValue - signalValue
    IN ((IF raw < 0 THEN 0 ELSE raw) * 64) % 65536

(* Correlated double sampling of one pixel (second readout phase).         *)
apsCDS(resetValue, signalValue) ==
    LET raw == resetValue - signalValue
        pixelValue == IF resetValue < 384 \/ signalValue = 0 THEN 1023
                      ELSE IF raw < 0 THEN 0
                      ELSE IF raw > 1023 THEN 1023 ELSE raw
    IN (pixelValue * 64) % 65536

IS_DAVIS640H(chipID) == chipID = "DAVIS640H"
IS_DAVIS240(chipID) == chipID \in {"DAVIS240A", "DAVIS240B", "DAVIS240C"}

(* RGB support: the serpentine row offset of the DAVIS640H.                *)
cDavisOffsetStep(c) ==
    IF c.offsetDirection = 0
    THEN IF c.offset + 1 = 321 THEN [offsetDirection |-> 1, offset |-> 318]
         ELSE [c EXCEPT !.offset = @ + 1]
    ELSE [c EXCEPT !.offset = @ - 3]

apsUpdateFrame(s, data) ==
    LET rt == s.aps.currentReadoutType
        xPos0 == IF s.aps.flipX THEN (s.aps.expectedCountX - 1 - s.aps.countX[rt]) % 65536
                 ELSE s.aps.countX[rt]
        yPos0 == IF s.aps.flipY THEN (s.aps.expectedCountY - 1 - s.aps.countY[rt]) % 65536
                 ELSE s.aps.countY[rt]
        yPos1 == IF IS_DAVIS640H(s.info.chipID) THEN (yPos0 + s.aps.cDavisSupport.offset) % 65536
                 ELSE yPos0
        xPos == IF s.aps.invertXY THEN yPos1 ELSE xPos0
        yPos == IF s.aps.invertXY THEN xPos0 ELSE yPos1
        pixelPosition == yPos * s.aps.roi.sizeX + xPos
        inRange == pixelPosition + 1 \in DOMAIN s.aps.frame.pixels
        isCDavisGS == IS_DAVIS640H(s.info.chipID) /\ s.aps.globalShutter
        stored == IF inRange THEN s.aps.frame.pixels[pixelPosition + 1] ELSE 0
        value == IF (rt = "RESET" /\ ~isCDavisGS) \/ (rt = "SIGNAL" /\ isCDavisGS)
                 THEN data
                 ELSE IF isCDavisGS THEN apsCDS(data, stored) ELSE apsCDS(stored, data)
        s1 == IF inRange
              THEN [s EXCEPT !.aps.frame.pixels[pixelPosition + 1] = value]
              ELSE [s EXCEPT !.aps.frame.outOfRange = TRUE]
    IN IF IS_DAVIS640H(s.info.chipID)
       THEN [s1 EXCEPT !.aps.cDavisSupport = cDavisOffsetStep(@)]
       ELSE s1

(* A validation that looks at the reset phase only.                        *)
apsEndFrameValidResetOnly(s) ==
    s.aps.countX["RESET"] = s.aps.expectedCountX

(* apsEndFrame: the frame is valid when every phase saw all its columns.   *)
apsEndFrameValid(s) ==
    \A i \in ReadoutTypes : s.aps.countX[i] = s.aps.expectedCountX

apsEndFrame(s, g) ==
    [validFrame |-> apsEndFrameValid(s),
     s |-> PutEvent(s, "special", SpecialEvent(s.timestamps.current, "APS_FRAME_END"), g)]

FrameEvent(s) ==
    [tsStartOfFrame |-> s.aps.frame.tsStartFrame,
     tsStartOfExposure |-> s.aps.frame.tsStartExposure,
     tsEndOfExposure |-> s.aps.frame.tsEndExposure,
     tsEndOfFrame |-> s.timestamps.current,
     lengthX |-> s.aps.roi.sizeX, lengthY |-> s.aps.roi.sizeY,
     pixels |-> s.aps.frame.pixels]

(* case 10: APS Frame End.                                                 *)
apsFrameEndUnit(s, g) ==
    IF s.aps.ignoreEvents THEN s
    ELSE LET r == apsEndFrame(s, g)
         IN IF r.validFrame THEN PutEvent(r.s, "frame", FrameEvent(r.s), g) ELSE r.s

(* APS column markers and samples (cases 11, 12, 13 and code 4).           *)
apsColumnStart(s, rt) ==
    IF s.aps.ignoreEvents THEN s
    ELSE [s EXCEPT !.aps.currentReadoutType = rt,
                   !.aps.countY[rt] = 0,
                   !.aps.cDavisSupport = [offsetDirection |-> 0, offset |-> 1]]

(* A Column End that counts the column only when its row count is right.  *)
apsColumnEndChecksRows(s) ==
    IF s.aps.ignoreEvents \/ s.aps.countY[s.aps.currentReadoutType] # s.aps.expectedCountY THEN s
    ELSE [s EXCEPT !.aps.countX[s.aps.currentReadoutType] = (@ + 1) % 65536]

apsColumnEnd(s) ==
    IF s.aps.ignoreEvents THEN s
    ELSE [s EXCEPT !.aps.countX[s.aps.currentReadoutType] = (@ + 1) % 65536]

(* A sample handler that steps the RGB offset tracker of a sample it       *)
(* ignores.                                                                *)
apsSampleStepsOffset(s, data) ==
    LET rt == s.aps.currentReadoutType
    IN IF s.aps.ignoreEvents THEN s
       ELSE IF s.aps.countX[rt] >= s.aps.expectedCountX \/ s.aps.countY[rt] >= s.aps.expectedCountY
            THEN IF IS_DAVIS640H(s.info.chipID)
                 THEN [s EXCEPT !.aps.cDavisSupport = cDavisOffsetStep(@)]
                 ELSE s
            ELSE LET d == IF IS_DAVIS240(s.info.chipID) THEN (data * 2) % 65536 ELSE data
                     s1 == apsUpdateFrame(s, d)
                 IN [s1 EXCEPT !.aps.countY[rt] = (@ + 1) % 65536]

apsSample(s, data) ==
    LET rt == s.aps.currentReadoutType
    IN IF s.aps.ignoreEvents THEN s
       ELSE IF s.aps.countX[rt] >= s.aps.expectedCountX \/ s.aps.countY[rt] >= s.aps.expectedCountY
            THEN s
            ELSE LET d == IF IS_DAVIS240(s.info.chipID) THEN (data * 2) % 65536 ELSE data
                     s1 == apsUpdateFrame(s, d)
                 IN [s1 EXCEPT !.aps.countY[rt] = (@ + 1) % 65536]

(* cases 14 and 15: exposure start / end.                                  *)
apsExposure(s, isStart, g) ==
    IF s.aps.ignoreEvents THEN s
    ELSE IF isStart
         THEN PutEvent([s EXCEPT !.aps.frame.tsStartExposure = s.timestamps.current],
                       "special", SpecialEvent(s.timestamps.current, "APS_EXPOSURE_START"), g)
         ELSE PutEvent([s EXCEPT !.aps.frame.tsEndExposure = s.timestamps.current],
                       "special", SpecialEvent(s.timestamps.current, "APS_EXPOSURE_END"), g)

(* Misc8 codes 1 and 2: ROI geometry update.                               *)
apsROIUpdateSizes(s) ==
    LET sizeX == (s.aps.roi.sizeX + 1 - s.aps.roi.positionX) % 65536
        sizeY == (s.aps.roi.sizeY + 1 - s.aps.roi.positionY) % 65536
    IN [s EXCEPT !.aps.roi.sizeX = sizeX, !.aps.roi.sizeY = sizeY,
                 !.aps.expectedCountX = IF s.aps.invertXY THEN sizeY ELSE sizeX,
                 !.aps.expectedCountY = IF s.aps.invertXY THEN sizeX ELSE sizeY]

apsROIPart2(s, misc8Data) ==
    LET v == s.aps.roi.tmpData + misc8Data
        \* tmpData has its low byte clear, so the bitwise or is a sum
        k == s.aps.roi.update % 4
        s1 == CASE k = 0 -> [s EXCEPT !.aps.roi.positionX = v]
                [] k = 1 -> [s EXCEPT !.aps.roi.positionY = v]
                [] k = 2 -> [s EXCEPT !.aps.roi.sizeX = v]
                [] OTHER -> apsROIUpdateSizes([s EXCEPT !.aps.roi.sizeY = v])
    IN [s1 EXCEPT !.aps.roi.update = (@ + 1) % 256]

----------------------------------------------------------------------------
(* IMU6 assembler of the current decoder.                                  *)

I16T(x) == LET y == x % 65536 IN IF y >= 32768 THEN y - 65536 ELSE y

ZeroIMU6Event ==
    [timestamp |-> 0, accelX |-> 0, accelY |-> 0, accelZ |-> 0, temp |-> 0,
     gyroX |-> 0, gyroY |-> 0, gyroZ |-> 0]

(* case 5: IMU Start.  imu.fields counts the data fields consumed since    *)
(* the last IMU Start (history, never read by the decoder).                *)
imuStart(s) ==
    [s EXCEPT !.imu.ignoreEvents = FALSE, !.imu.count = 0, !.imu.type = {},
              !.imu.currentEvent = ZeroIMU6Event,
              !.imu.fields = 0]

(* An IMU End that does not look at the step counter.                      *)
imuEndAnyCount(s, g) ==
    IF s.imu.ignoreEvents THEN s
    ELSE LET s1 == [s EXCEPT !.imu.currentEvent.timestamp = s.timestamps.current]
         IN PutEvent(s1, "imu6", s1.imu.currentEvent, g)

(* case 7: IMU End.                                                        *)
imuEnd(s, g) ==
    IF s.imu.ignoreEvents THEN s
    ELSE IF s.imu.count = IMU_TOTAL_COUNT
         THEN LET s1 == [s EXCEPT !.imu.currentEvent.timestamp = s.timestamps.current]
              IN PutEvent(s1, "imu6", s1.imu.currentEvent, g)
         ELSE s

(* Misc8 code 0: one IMU data byte.  Samples are kept as signed raw values *)
(* (the positive scale divisor of the configuration is not applied).       *)
imuSample(s, misc8Data, flip) ==
    LET v == I16T(s.imu.tmpData * 256 + misc8Data) IN IF flip THEN I16T(-v) ELSE v

imuCountSkip(count, type) ==
    IF count = 5
    THEN IF "TEMP" \notin type THEN (IF "GYRO" \in type THEN 2 ELSE 8) ELSE 0
    ELSE IF count = 7 /\ "GYRO" \notin type THEN 6 ELSE 0

imuData(s, misc8Data) ==
    LET c == s.imu.count
        s1 == CASE c \in {0, 2, 4, 6, 8, 10, 12} -> [s EXCEPT !.imu.tmpData = misc8Data]
                [] c = 1 -> [s EXCEPT !.imu.currentEvent.accelX = imuSample(s, misc8Data, s.imu.flipX)]
                [] c = 3 -> [s EXCEPT !.imu.currentEvent.accelY = imuSample(s, misc8Data, s.imu.flipY)]
                [] c = 5 -> [s EXCEPT !.imu.currentEvent.accelZ = imuSample(s, misc8Data, s.imu.flipZ)]
                [] c = 7 -> [s EXCEPT !.imu.currentEvent.temp = imuSample(s, misc8Data, FALSE)]
                [] c = 9 -> [s EXCEPT !.imu.currentEvent.gyroX = imuSample(s, misc8Data, s.imu.flipX)]
                [] c = 11 -> [s EXCEPT !.imu.currentEvent.gyroY = imuSample(s, misc8Data, s.imu.flipY)]
                [] c = 13 -> [s EXCEPT !.imu.currentEvent.gyroZ = imuSample(s, misc8Data, s.imu.flipZ)]
                [] OTHER -> s
    IN IF s.imu.ignoreEvents THEN s
       ELSE [s1 EXCEPT !.imu.count = (c + imuCountSkip(c, s.imu.type) + 1) % 256,
                       !.imu.fields = @ + 1]

(* Misc8 code 3: IMU Scale Config; bits 5..7 of the data select the sensors *)
(* (temperature, gyroscope, accelerometer, from the low bit up).           *)
imuTypeOf(data) ==
    LET bits == (data \div 32) % 8
    IN {t \in ImuTypes : \/ t = "TEMP" /\ bits % 2 = 1
                         \/ t = "GYRO" /\ (bits \div 2) % 2 = 1
                         \/ t = "ACCEL" /\ (bits \div 4) % 2 = 1}

imuScaleConfig(s, data) ==
    LET type == imuTypeOf(data)
        count == IF "ACCEL" \in type THEN 0
                 ELSE IF "TEMP" \in type THEN 6
                 ELSE IF "GYRO" \in type THEN 8 ELSE 14
    IN IF s.imu.ignoreEvents THEN s
       ELSE [s EXCEPT !.imu.type = type, !.imu.count = count,
                      !.imu.accelScaleSel = (data \div 4) % 4,
                      !.imu.gyroScaleSel = data % 4]

(* code 5: Misc 8bit data.                                                 *)
misc8Unit(s, data) ==
    LET misc8Code == (data \div 256) % 16
        misc8Data == data % 256
    IN CASE misc8Code = 0 -> imuData(s, misc8Data)
         [] misc8Code = 1 -> [s EXCEPT !.aps.roi.tmpData = misc8Data * 256]
         [] misc8Code = 2 -> apsROIPart2(s, misc8Data)
         [] misc8Code = 3 -> imuScaleConfig(s, data)
         [] OTHER -> s

RECURSIVE Pow2(_)
Pow2(n) == IF n = 0 THEN 1 ELSE 2 * Pow2(n - 1)

(* code 6: Misc 10bit data (exposure of the current frame, 10 bits a unit). *)
misc10Unit(s, data) ==
    LET misc10Code == (data \div 1024) % 4
        misc10Data == data % 1024
        a == s.aps.autoExposure
    IN IF misc10Code = 0
       THEN [s EXCEPT !.aps.autoExposure.currentFrameExposure =
                          IF a.tmpData < 3 /\ (a.currentFrameExposure \div Pow2(10 * a.tmpData)) % 1024 = 0
                          THEN @ + misc10Data * Pow2(10 * a.tmpData) ELSE @,
                      !.aps.autoExposure.tmpData = (@ + 1) % 256]
       ELSE s

----------------------------------------------------------------------------
(* davisEventTranslator of the current decoder: one loop iteration.        *)

(* Loop top: allocate the container and the open packets that are missing. *)
(* a names the allocation that fails ("none" when all succeed).            *)
AllocOrder == <<"container", "special", "polarity", "frame", "imu6">>

AllocNeeded(s, what) ==
    IF what = "container" THEN ~s.container.currentPacketContainer.alloc
    ELSE s.currentPackets.packet[what].id = 0

(* The allocator: live is the set of packet instances in use; a new one   *)
(* is an instance not in use, and allocation fails when there is none.     *)
PacketIds(ps) == {ps[t].id : t \in DOMAIN ps} \ {0}
ManagerIds(s) == PacketIds(s.currentPackets.packet)
ContainerIds(c) == PacketIds(c.packets)
RingIds(rb) == UNION {ContainerIds(rb[i]) : i \in DOMAIN rb}

PoolEmpty(live) == \A i \in 1..MaxIds : i \in live
FreshId(live) == CHOOSE i \in 1..MaxIds : i \notin live /\ \A j \in 1..(i - 1) : j \in live

RECURSIVE AllocateFrom(_, _, _, _, _, _)
AllocateFrom(order, capacity, s, i, a, used) ==
    IF i > Len(order) THEN [ok |-> TRUE, s |-> s]
    ELSE LET what == order[i]
             live == used \cup ManagerIds(s)
         IN IF ~AllocNeeded(s, what) THEN AllocateFrom(order, capacity, s, i + 1, a, used)
            ELSE IF what = "container"
                 THEN IF a = what THEN [ok |-> FALSE, s |-> s]
                      ELSE AllocateFrom(order, capacity,
                                        [s EXCEPT !.container.currentPacketContainer = EmptyContainer],
                                        i + 1, a, used)
                 ELSE IF a = what \/ PoolEmpty(live) THEN [ok |-> FALSE, s |-> s]
                      ELSE AllocateFrom(order, capacity,
                                        [s EXCEPT !.currentPackets.packet[what] =
                                                      PacketAllocate(FreshId(live), capacity,
                                                                     s.timestamps.wrapOverflow)],
                                        i + 1, a, used)

davisAllocate(s, a, used) == AllocateFrom(AllocOrder, PacketDefaultSize, s, 1, a, used)

(* code 0: special events.                                                 *)
davisSpecial(s, data, g) ==
    LET now == s.timestamps.current
        r(x) == [s |-> x, tsReset |-> FALSE, tsBigWrap |-> FALSE]
    IN CASE data = 1 ->
              LET ts == handleTimestampResetNewLogic(s.timestamps)
                  c == containerGenerationCommitTimestampInit(
                           containerGenerationCommitTimestampReset(s.container), ts.current)
              IN [s |-> [s EXCEPT !.timestamps = ts, !.container = c],
                  tsReset |-> TRUE, tsBigWrap |-> FALSE]
         [] data = 2 -> r(PutEvent(s, "special", SpecialEvent(now, "EXTERNAL_INPUT_FALLING_EDGE"), g))
         [] data = 3 -> r(PutEvent(s, "special", SpecialEvent(now, "EXTERNAL_INPUT_RISING_EDGE"), g))
         [] data = 4 -> r(PutEvent(s, "special", SpecialEvent(now, "EXTERNAL_INPUT_PULSE"), g))
         [] data = 5 -> r(imuStart(s))
         [] data = 7 -> r(imuEnd(s, g))
         [] data = 8 -> r(apsInitFrame([s EXCEPT !.aps.globalShutter = TRUE], g))
         [] data = 9 -> r(apsInitFrame([s EXCEPT !.aps.globalShutter = FALSE], g))
         [] data = 10 -> r(apsFrameEndUnit(s, g))
         [] data = 11 -> r(apsColumnStart(s, "RESET"))
         [] data = 12 -> r(apsColumnStart(s, "SIGNAL"))
         [] data = 13 -> r(apsColumnEnd(s))
         [] data = 14 -> r(apsExposure(s, TRUE, g))
         [] data = 15 -> r(apsExposure(s, FALSE, g))
         [] data = 16 -> r(PutEvent(s, "special", SpecialEvent(now, "EXTERNAL_GENERATOR_FALLING_EDGE"), g))
         [] data = 17 -> r(PutEvent(s, "special", SpecialEvent(now, "EXTERNAL_GENERATOR_RISING_EDGE"), g))
         [] OTHER -> r(s)

(* codes 1, 2 and 3: DVS addresses.                                        *)
(* A Y address handler without the range check.                            *)
dvsYAddressUnchecked(s, data) == [s EXCEPT !.dvs.lastY = data]

dvsYAddress(s, data) ==
    IF data >= s.dvs.sizeY THEN s ELSE [s EXCEPT !.dvs.lastY = data]

PolarityEvent(ts, x, y, pol) == [timestamp |-> ts, x |-> x, y |-> y, polarity |-> pol]

(* An X address handler that writes the addresses the other way round.    *)
dvsXAddressSwapped(s, code, data, g) ==
    IF data >= s.dvs.sizeX THEN s
    ELSE PutEvent(s, "polarity", PolarityEvent(s.timestamps.current, s.dvs.lastY, data, code % 2), g)

dvsXAddress(s, code, data, g) ==
    IF data >= s.dvs.sizeX THEN s
    ELSE PutEvent(s, "polarity",
                  IF s.dvs.invertXY
                  THEN PolarityEvent(s.timestamps.current, s.dvs.lastY, data, code % 2)
                  ELSE PolarityEvent(s.timestamps.current, data, s.dvs.lastY, code % 2), g)

(* code 7: timestamp wrap.                                                 *)
davisWrap(s, data, g) ==
    LET w == handleTimestampWrapNewLogic(s.timestamps, data, TS_WRAP_ADD)
        s1 == [s EXCEPT !.timestamps = w.ts]
    IN IF w.bigWrap
       THEN [s |-> PutEvent(s1, "special", SpecialEvent(INT32_MAX, "TIMESTAMP_WRAP"), g),
             tsReset |-> FALSE, tsBigWrap |-> TRUE]
       ELSE [s |-> [s1 EXCEPT !.container = containerGenerationCommitTimestampInit(@, w.ts.current)],
             tsReset |-> FALSE, tsBigWrap |-> FALSE]

(* The decoding of one unit, before the commit thresholds are evaluated.   *)
davisDecode(s, event, g) ==
    LET code == Code(event)
        data == Data(event)
        r(x) == [s |-> x, tsReset |-> FALSE, tsBigWrap |-> FALSE]
    IN IF IsTimestamp(event)
       THEN LET ts == handleTimestampUpdateNewLogic(s.timestamps, event)
            IN r([s EXCEPT !.timestamps = ts,
                           !.container = containerGenerationCommitTimestampInit(@, ts.current)])
       ELSE CASE code = 0 -> davisSpecial(s, data, g)
              [] code = 1 -> r(dvsYAddress(s, data))
              [] code \in {2, 3} -> r(dvsXAddress(s, code, data, g))
              [] code = 4 -> r(apsSample(s, data))
              [] code = 5 -> r(misc8Unit(s, data))
              [] code = 6 -> r(misc10Unit(s, data))
              [] OTHER -> davisWrap(s, data, g)

----------------------------------------------------------------------------
(* Commit: thresholds, attaching the non-empty packets, forced ignore.     *)

(* An attach that leaves the Manager's reference and write position.      *)
AttachPacketKeepsReference(s, t) ==
    IF s.currentPackets.position[t] > 0
    THEN [s EXCEPT !.container.currentPacketContainer.packets[t] = s.currentPackets.packet[t],
                   !.log.attached = @ \cup {t},
                   !.log.attachedIds = @ \cup {s.currentPackets.packet[t].id}]
    ELSE s

(* An attach that does not look at the write position.                     *)
AttachPacketAlways(s, t) ==
    [s EXCEPT !.container.currentPacketContainer.packets[t] = s.currentPackets.packet[t],
              !.currentPackets.packet[t] = NULL,
              !.currentPackets.position[t] = 0,
              !.log.attached = @ \cup {t},
              !.log.attachedIds = @ \cup {s.currentPackets.packet[t].id}]

(* One packet type: attached when its write position is above zero.        *)
AttachPacket(s, t) ==
    IF s.currentPackets.position[t] > 0
    THEN [s EXCEPT !.container.currentPacketContainer.packets[t] = s.currentPackets.packet[t],
                   !.currentPackets.packet[t] = NULL,
                   !.currentPackets.position[t] = 0,
                   !.log.attached = @ \cup {t},
                   !.log.attachedIds = @ \cup {s.currentPackets.packet[t].id}]
    ELSE s

AttachAll(s) ==
    AttachPacket(AttachPacket(AttachPacket(AttachPacket(s, "polarity"), "special"), "frame"), "imu6")

(* A forced commit that leaves the accumulators running.                   *)
ForcedIgnoreNothing(s, forced) == s

ForcedIgnore(s, forced) ==
    IF forced THEN [s EXCEPT !.aps.ignoreEvents = TRUE, !.imu.ignoreEvents = TRUE] ELSE s

(* A size threshold that is met only above the maximum.                    *)
davisCommitTriggeredAbove(s, tsReset, tsBigWrap) ==
    LET size == containerGenerationGetMaxPacketSize(s.container)
        containerSizeCommit == size > 0 /\ \E t \in PacketTypes : s.currentPackets.position[t] > size
        containerTimeCommit == containerGenerationIsCommitTimestampElapsed(
                                   s.container, s.timestamps.wrapOverflow, s.timestamps.current)
    IN tsReset \/ tsBigWrap \/ containerSizeCommit \/ containerTimeCommit

davisCommitTriggered(s, tsReset, tsBigWrap) ==
    LET size == containerGenerationGetMaxPacketSize(s.container)
        containerSizeCommit == size > 0 /\ \E t \in PacketTypes : s.currentPackets.position[t] >= size
        containerTimeCommit == containerGenerationIsCommitTimestampElapsed(
                                   s.container, s.timestamps.wrapOverflow, s.timestamps.current)
    IN tsReset \/ tsBigWrap \/ containerSizeCommit \/ containerTimeCommit

(* The state when containerGenerationExecute is called (or the decoded     *)
(* state when no threshold is met).                                        *)
davisCommit(s, tsReset, tsBigWrap) ==
    IF davisCommitTriggered(s, tsReset, tsBigWrap)
    THEN LET s1 == [s EXCEPT !.log.commit = TRUE, !.log.forced = tsReset \/ tsBigWrap,
                             !.log.atCommit = s.currentPackets.position]
         IN ForcedIgnore(AttachAll(s1), tsReset \/ tsBigWrap)
    ELSE s

----------------------------------------------------------------------------
(* Data exchange of the current decoder.  Its buffer and its consumer are  *)
(* outside the translator: full tells whether the buffer is full when the  *)
(* translator puts a Container, and a Container that was put has left the  *)
(* producer.                                                               *)

(* The Container that carries the deferred timestamp reset event alone.    *)
TSResetContainer(s, id) ==
    [alloc |-> TRUE, seq |-> 0,
     packets |-> [t \in PacketTypes |->
                    IF t = "special"
                    THEN [PacketAllocate(id, 1, s.timestamps.wrapOverflow)
                             EXCEPT !.events = <<SpecialEvent(INT32_MAX, "TIMESTAMP_RESET")>>]
                    ELSE NULL]]

(* containerGenerationExecute: the sealed Container goes to the data       *)
(* exchange and is dropped when that is full; a timestamp reset then goes  *)
(* out alone in its own Container, which must be delivered (pending holds  *)
(* it while the data exchange is full).                                    *)
ExecutePutContainer(s, full) ==
    LET s1 == [s EXCEPT !.container.currentPacketContainer = NoContainer]
    IN IF ~full
       THEN [s1 EXCEPT !.log.sealed = @ + 1]
       ELSE [s1 EXCEPT !.log.dropped = @ + 1]

ExecutePutReset(s, full) ==
    IF ~full
    THEN [s EXCEPT !.container.pending = NoContainer, !.log.sealed = @ + 1]
    ELSE s

containerGenerationExecute(s, emptyContainerCommit, tsReset, full, id) ==
    LET s1 == IF emptyContainerCommit THEN s ELSE ExecutePutContainer(s, full)
        s2 == [s1 EXCEPT !.container.commitTimestamp = s.timestamps.current]
    IN IF tsReset
       THEN ExecutePutReset([s2 EXCEPT !.container.pending = TSResetContainer(s2, id)], full)
       ELSE s2

(* forcedSince tells, for the APS and the IMU side, whether a forced       *)
(* commit happened and no Frame Start / IMU Start unit was decoded since   *)
(* (history, never read by the decoder).                                   *)
ForcedSince(h, event, forced) ==
    [aps |-> forced \/ (h.aps /\ event \notin {Unit(0, 8), Unit(0, 9)}),
     imu |-> forced \/ (h.imu /\ event # Unit(0, 5))]

(* rowMismatch tells whether, since the last Frame Start unit, a Column    *)
(* End unit was decoded while the row count of its phase differed from     *)
(* expectedCountY (history, never read by the decoder).                    *)
RowMismatch(s, event) ==
    IF event \in {Unit(0, 8), Unit(0, 9)} THEN FALSE
    ELSE \/ s.rowMismatch
         \/ /\ event = Unit(0, 13) /\ ~s.aps.ignoreEvents
            /\ s.aps.countY[s.aps.currentReadoutType] # s.aps.expectedCountY

(* exposure tells, for the start and the end of exposure timestamp, when  *)
(* it was latched: never, in the frame that the last Frame Start unit      *)
(* began (current) or before it (earlier) (history, never read by the      *)
(* decoder).                                                               *)
ExposureLatched(s, event) ==
    IF event \in {Unit(0, 8), Unit(0, 9)}
    THEN [f \in {"start", "end"} |-> IF s.exposure[f] = "never" THEN "never" ELSE "earlier"]
    ELSE IF event = Unit(0, 14) /\ ~s.aps.ignoreEvents THEN [s.exposure EXCEPT !.start = "current"]
    ELSE IF event = Unit(0, 15) /\ ~s.aps.ignoreEvents THEN [s.exposure EXCEPT !.end = "current"]
    ELSE s.exposure

(* One whole loop iteration of the current decoder.                        *)
davisTranslateUnit(s, event, g, full, id) ==
    LET ghost(r) == [r EXCEPT !.forcedSince = ForcedSince(@, event, r.log.forced),
                              !.rowMismatch = RowMismatch(s, event),
                              !.exposure = ExposureLatched(s, event)]
        execute(c, tsReset) ==
            IF c.log.commit
            THEN containerGenerationExecute(c, c.log.attached = {}, tsReset, full, id)
            ELSE c
        commit(d) == ghost(execute(davisCommit(d.s, d.tsReset, d.tsBigWrap), d.tsReset))
    IN commit(davisDecode([s EXCEPT !.log = EmptyLog], event, g))

davisUnitCommits(s, event, g) ==
    LET d == davisDecode([s EXCEPT !.log = EmptyLog], event, g)
    IN davisCommitTriggered(d.s, d.tsReset, d.tsBigWrap)

----------------------------------------------------------------------------
(* The legacy DAVIS decoder (davis_common.c).  Its packets have a fixed    *)
(* capacity and are committed when full; it puts its Containers on a ring  *)
(* buffer itself.  unitNo and sealed count the units decoded and the       *)
(* Containers sealed and container.lastPut is the number of the last       *)
(* Container put (history, never read by the decoder); every event carries *)
(* the number of the unit that produced it.                                *)

legacyPutEvent(s, t, e) ==
    [s EXCEPT !.currentPackets.packet[t].events = Append(@, e),
              !.currentPackets.position[t] = @ + 1,
              !.log.appended[t] = @ + 1]

legacySpecialEvent(s, ts, type, data) ==
    [timestamp |-> ts, type |-> type, data |-> data, n |-> s.unitNo]

ZeroFrameEvent ==
    [tsStartOfFrame |-> 0, tsStartOfExposure |-> 0, tsEndOfExposure |-> 0, tsEndOfFrame |-> 0,
     lengthX |-> 0, lengthY |-> 0, pixels |-> <<>>, n |-> 0]

initFrame(s) ==
    [s EXCEPT !.aps.currentReadoutType = "RESET",
              !.aps.countX = [i \in ReadoutTypes |-> 0],
              !.aps.countY = [i \in ReadoutTypes |-> 0],
              !.aps.currentFrameEvent =
                  [ZeroFrameEvent EXCEPT !.tsStartOfFrame = s.timestamps.current,
                                         !.lengthX = s.aps.window0SizeX,
                                         !.lengthY = s.aps.window0SizeY,
                                         !.pixels = [i \in 1..(s.aps.window0SizeX * s.aps.window0SizeY) |-> 0]]]

legacyFrameStart(s, globalShutter, resetRead) ==
    LET s1 == initFrame([s EXCEPT !.aps.ignoreEvents = FALSE,
                                  !.aps.globalShutter = globalShutter,
                                  !.aps.resetRead = resetRead])
    IN IF resetRead THEN s1
       ELSE [s1 EXCEPT !.aps.currentFrameEvent.tsStartOfExposure = s.timestamps.current]

legacyFrameValid(s) ==
    \A j \in ReadoutTypes :
       s.aps.countX[j] = IF j = "RESET" /\ ~s.aps.resetRead THEN 0
                         ELSE s.aps.currentFrameEvent.lengthX

(* case 10: APS Frame End.                                                 *)
legacyFrameEnd(s) ==
    IF s.aps.ignoreEvents THEN s
    ELSE LET f == [s.aps.currentFrameEvent EXCEPT !.tsEndOfFrame = s.timestamps.current,
                                                  !.n = s.unitNo]
             s1 == IF legacyFrameValid(s) THEN legacyPutEvent(s, "frame", f) ELSE s
         IN [s1 EXCEPT !.aps.currentFrameEvent = [f EXCEPT !.pixels = <<>>]]

(* cases 11 and 12: APS Reset / Signal Column Start.                       *)
legacyColumnStart(s, rt) ==
    IF s.aps.ignoreEvents THEN s
    ELSE LET s1 == [s EXCEPT !.aps.currentReadoutType = rt,
                             !.aps.countY[rt] = 0,
                             !.aps.rgbPixelOffsetDirection = 0,
                             !.aps.rgbPixelOffset = 1]
         IN IF rt = "RESET"
            THEN IF ~s.aps.globalShutter /\ s.aps.countX["RESET"] = 0
                 THEN [s1 EXCEPT !.aps.currentFrameEvent.tsStartOfExposure = s.timestamps.current]
                 ELSE s1
            ELSE IF s.aps.countX["SIGNAL"] = 0
                 THEN [s1 EXCEPT !.aps.currentFrameEvent.tsEndOfExposure = s.timestamps.current]
                 ELSE s1

(* case 13: APS Column End.                                                *)
legacyColumnEnd(s) ==
    IF s.aps.ignoreEvents THEN s
    ELSE LET rt == s.aps.currentReadoutType
             s1 == [s EXCEPT !.aps.countX[rt] = (@ + 1) % 65536]
         IN IF s.aps.globalShutter /\ rt = "RESET"
               /\ s1.aps.countX["RESET"] = s.aps.currentFrameEvent.lengthX
            THEN [s1 EXCEPT !.aps.currentFrameEvent.tsStartOfExposure = s.timestamps.current]
            ELSE s1

IS_RGB(chipID) == chipID = "DAVISRGB"

(* code 4: APS ADC sample.  A write outside the reset frame or the pixel   *)
(* array of the frame event (which is NULL after a Frame End) is recorded  *)
(* in aps.invalidWrite.                                                    *)
legacySample(s, data) ==
    LET rt == s.aps.currentReadoutType
        f == s.aps.currentFrameEvent
        xPos0 == IF s.aps.flipX THEN (f.lengthX - 1 - s.aps.countX[rt]) % 65536 ELSE s.aps.countX[rt]
        yPos0 == IF s.aps.flipY THEN (f.lengthY - 1 - s.aps.countY[rt]) % 65536 ELSE s.aps.countY[rt]
        yPos1 == IF IS_RGB(s.info.chipID) THEN (yPos0 + s.aps.rgbPixelOffset) % 65536 ELSE yPos0
        xPos == IF s.aps.invertXY THEN yPos1 ELSE xPos0
        yPos == IF s.aps.invertXY THEN xPos0 ELSE yPos1
        pixelPosition == yPos * f.lengthX + xPos
        rgbGS == IS_RGB(s.info.chipID) /\ s.aps.globalShutter
        inReset == pixelPosition + 1 \in DOMAIN s.aps.currentResetFrame
        inFrame == pixelPosition + 1 \in DOMAIN f.pixels
        stored == IF inReset THEN s.aps.currentResetFrame[pixelPosition + 1] ELSE 0
        raw == IF rgbGS THEN data - stored ELSE stored - data
        pixelValue == ((IF raw < 0 THEN 0 ELSE raw) * 64) % 65536
        s1 == IF (rt = "RESET" /\ ~rgbGS) \/ (rt = "SIGNAL" /\ rgbGS)
              THEN IF inReset THEN [s EXCEPT !.aps.currentResetFrame[pixelPosition + 1] = data]
                   ELSE [s EXCEPT !.aps.invalidWrite = TRUE]
              ELSE IF inReset /\ inFrame
                   THEN [s EXCEPT !.aps.currentFrameEvent.pixels[pixelPosition + 1] = pixelValue]
                   ELSE [s EXCEPT !.aps.invalidWrite = TRUE]
        s2 == [s1 EXCEPT !.aps.countY[rt] = (@ + 1) % 65536]
    IN IF s.aps.ignoreEvents THEN s
       ELSE IF s.aps.countY[rt] >= f.lengthY THEN s
       ELSE IF ~IS_RGB(s.info.chipID) THEN s2
       ELSE IF s.aps.rgbPixelOffsetDirection = 0
            THEN IF s.aps.rgbPixelOffset + 1 = 321
                 THEN [s2 EXCEPT !.aps.rgbPixelOffsetDirection = 1, !.aps.rgbPixelOffset = 318]
                 ELSE [s2 EXCEPT !.aps.rgbPixelOffset = @ + 1]
            ELSE [s2 EXCEPT !.aps.rgbPixelOffset = I16T(@ - 3)]

(* Legacy IMU6 assembler.                                                  *)
legacyImuStart(s) ==
    [s EXCEPT !.imu.ignoreEvents = FALSE, !.imu.count = 0,
              !.imu.currentEvent = [ZeroIMU6Event EXCEPT !.timestamp = s.timestamps.current]]

legacyImuEnd(s) ==
    IF s.imu.ignoreEvents THEN s
    ELSE IF s.imu.count = IMU6_COUNT
         THEN legacyPutEvent(s, "imu6", [timestamp |-> s.imu.currentEvent.timestamp, n |-> s.unitNo,
                                         sample |-> s.imu.currentEvent])
         ELSE s

(* Special codes 16..31: IMU Scale Config.                                 *)
legacyImuScaleConfig(s, data) ==
    IF s.imu.ignoreEvents THEN s
    ELSE [s EXCEPT !.imu.accelScale = (data \div 4) % 4, !.imu.gyroScale = data % 4,
                   !.imu.count = 1]

(* Misc8 code 0: one IMU data byte (raw values; the scale is not applied). *)
legacyImuData(s, misc8Data) ==
    LET c == IF s.imu.count = 0 THEN 1 ELSE s.imu.count
        v == I16T(s.imu.tmpData * 256 + misc8Data)
        s1 == CASE c \in {1, 3, 5, 7, 9, 11, 13} -> [s EXCEPT !.imu.tmpData = misc8Data]
                [] c = 2 -> [s EXCEPT !.imu.currentEvent.accelX = v]
                [] c = 4 -> [s EXCEPT !.imu.currentEvent.accelY = v]
                [] c = 6 -> [s EXCEPT !.imu.currentEvent.accelZ = v]
                [] c = 8 -> [s EXCEPT !.imu.currentEvent.temp = v]
                [] c = 10 -> [s EXCEPT !.imu.currentEvent.gyroX = v]
                [] c = 12 -> [s EXCEPT !.imu.currentEvent.gyroY = v]
                [] c = 14 -> [s EXCEPT !.imu.currentEvent.gyroZ = v]
                [] OTHER -> s
    IN IF s.imu.ignoreEvents \/ s.imu.count >= IMU6_COUNT THEN s
       ELSE [s1 EXCEPT !.imu.count = (c + 1) % 256]

(* A timestamp reset that queues no event.                                 *)
legacyTimestampResetNoEvent(s) ==
    [s EXCEPT !.timestamps = [wrapOverflow |-> 0, wrapAdd |-> 0, last |-> 0,
                              current |-> 0, dvs |-> 0]]

(* A timestamp reset that leaves the overflow counter as it is.            *)
legacyTimestampResetKeepsOverflow(s) ==
    legacyPutEvent([s EXCEPT !.timestamps = [wrapOverflow |-> s.timestamps.wrapOverflow,
                                             wrapAdd |-> 0, last |-> 0,
                                             current |-> 0, dvs |-> 0]],
                   "special", legacySpecialEvent(s, INT32_MAX, "TIMESTAMP_RESET", 0))

(* case 1 of the special events: timestamp reset.                          *)
legacyTimestampReset(s) ==
    legacyPutEvent([s EXCEPT !.timestamps = [wrapOverflow |-> 0, wrapAdd |-> 0, last |-> 0,
                                             current |-> 0, dvs |-> 0]],
                   "special", legacySpecialEvent(s, INT32_MAX, "TIMESTAMP_RESET", 0))

(* code 0: special events.                                                 *)
legacySpecial(s, data) ==
    LET now == s.timestamps.current
        r(x) == [s |-> x, forceCommit |-> FALSE]
    IN CASE data = 1 -> [s |-> legacyTimestampReset(s), forceCommit |-> TRUE]
         [] data = 2 -> r(legacyPutEvent(s, "special",
                              legacySpecialEvent(s, now, "EXTERNAL_INPUT_FALLING_EDGE", 0)))
         [] data = 3 -> r(legacyPutEvent(s, "special",
                              legacySpecialEvent(s, now, "EXTERNAL_INPUT_RISING_EDGE", 0)))
         [] data = 4 -> r(legacyPutEvent(s, "special",
                              legacySpecialEvent(s, now, "EXTERNAL_INPUT_PULSE", 0)))
         [] data = 5 -> r(legacyImuStart(s))
         [] data = 7 -> r(legacyImuEnd(s))
         [] data = 8 -> r(legacyFrameStart(s, TRUE, TRUE))
         [] data = 9 -> r(legacyFrameStart(s, FALSE, TRUE))
         [] data = 10 -> r(legacyFrameEnd(s))
         [] data = 11 -> r(legacyColumnStart(s, "RESET"))
         [] data = 12 -> r(legacyColumnStart(s, "SIGNAL"))
         [] data = 13 -> r(legacyColumnEnd(s))
         [] data = 14 -> r(legacyFrameStart(s, TRUE, FALSE))
         [] data = 15 -> r(legacyFrameStart(s, FALSE, FALSE))
         [] data \in 16..31 -> r(legacyImuScaleConfig(s, data))
         [] OTHER -> r(s)

(* code 1: Y address; an unused previous Y address becomes a row-only      *)
(* special event.                                                          *)
legacyYAddress(s, data) ==
    IF data >= s.dvs.sizeY THEN s
    ELSE LET s1 == IF s.dvs.gotY
                   THEN legacyPutEvent(s, "special",
                            legacySpecialEvent(s, s.timestamps.dvs, "DVS_ROW_ONLY", s.dvs.lastY))
                   ELSE s
         IN [s1 EXCEPT !.dvs.lastY = data, !.dvs.gotY = TRUE, !.timestamps.dvs = s.timestamps.current]

IS_208(chipID) == chipID = "DAVIS208"

(* codes 2 and 3: X address.                                               *)
legacyXAddress(s, code, data) ==
    LET polarity == IF IS_208(s.info.chipID) /\ data < 192 THEN 1 - (code % 2) ELSE code % 2
        e == IF s.dvs.invertXY
             THEN [timestamp |-> s.timestamps.dvs, x |-> s.dvs.lastY, y |-> data,
                   polarity |-> polarity, n |-> s.unitNo]
             ELSE [timestamp |-> s.timestamps.dvs, x |-> data, y |-> s.dvs.lastY,
                   polarity |-> polarity, n |-> s.unitNo]
    IN IF data >= s.dvs.sizeX THEN s
       ELSE [legacyPutEvent(s, "polarity", e) EXCEPT !.dvs.gotY = FALSE]

(* code 7: timestamp wrap.                                                 *)
(* A wrap that counts the overflow but forces no commit.                   *)
legacyWrapNoCommit(s, data) ==
    LET wrapJump == TS_WRAP_ADD * data
        room == INT32_MAX - s.timestamps.wrapAdd
    IN [s |-> [s EXCEPT !.timestamps.wrapOverflow = @ + (IF wrapJump > room THEN 1 ELSE 0),
                        !.timestamps.wrapAdd = IF wrapJump > room THEN wrapJump - room - 1
                                               ELSE s.timestamps.wrapAdd + wrapJump],
        forceCommit |-> FALSE]

(* A wrap past INT32_MAX that sets last to the new base.                   *)
legacyWrapLastToBase(s, data) ==
    LET wrapJump == TS_WRAP_ADD * data
        room == INT32_MAX - s.timestamps.wrapAdd
    IN IF wrapJump > room
       THEN LET wrapRemainder == wrapJump - room - 1
                s1 == [s EXCEPT !.timestamps = [wrapOverflow |-> s.timestamps.wrapOverflow + 1,
                                                wrapAdd |-> wrapRemainder, last |-> wrapRemainder,
                                                current |-> wrapRemainder, dvs |-> 0]]
            IN [s |-> legacyPutEvent(s1, "special",
                          legacySpecialEvent(s, INT32_MAX, "TIMESTAMP_WRAP", 0)),
                forceCommit |-> TRUE]
       ELSE [s |-> [s EXCEPT !.timestamps.wrapAdd = s.timestamps.wrapAdd + wrapJump,
                             !.timestamps.last = s.timestamps.current,
                             !.timestamps.current = s.timestamps.wrapAdd + wrapJump],
             forceCommit |-> FALSE]

(* A big wrap that keeps one microsecond too much.                         *)
legacyWrapRemainderOff(s, data) ==
    LET wrapJump == TS_WRAP_ADD * data
        room == INT32_MAX - s.timestamps.wrapAdd
        \* wrapSum > INT32_MAX iff wrapJump > room (the code adds in 64 bits)
    IN IF wrapJump > room
       THEN LET wrapRemainder == wrapJump - room
                s1 == [s EXCEPT !.timestamps = [wrapOverflow |-> s.timestamps.wrapOverflow + 1,
                                                wrapAdd |-> wrapRemainder, last |-> 0,
                                                current |-> wrapRemainder, dvs |-> 0]]
            IN [s |-> legacyPutEvent(s1, "special",
                          legacySpecialEvent(s, INT32_MAX, "TIMESTAMP_WRAP", 0)),
                forceCommit |-> TRUE]
       ELSE [s |-> [s EXCEPT !.timestamps.wrapAdd = s.timestamps.wrapAdd + wrapJump,
                             !.timestamps.last = s.timestamps.current,
                             !.timestamps.current = s.timestamps.wrapAdd + wrapJump],
             forceCommit |-> FALSE]

legacyWrap(s, data) ==
    LET wrapJump == TS_WRAP_ADD * data
        room == INT32_MAX - s.timestamps.wrapAdd
        \* wrapSum > INT32_MAX iff wrapJump > room (the code adds in 64 bits)
    IN IF wrapJump > room
       THEN LET wrapRemainder == wrapJump - room - 1
                s1 == [s EXCEPT !.timestamps = [wrapOverflow |-> s.timestamps.wrapOverflow + 1,
                                                wrapAdd |-> wrapRemainder, last |-> 0,
                                                current |-> wrapRemainder, dvs |-> 0]]
            IN [s |-> legacyPutEvent(s1, "special",
                          legacySpecialEvent(s, INT32_MAX, "TIMESTAMP_WRAP", 0)),
                forceCommit |-> TRUE]
       ELSE [s |-> [s EXCEPT !.timestamps.wrapAdd = s.timestamps.wrapAdd + wrapJump,
                             !.timestamps.last = s.timestamps.current,
                             !.timestamps.current = s.timestamps.wrapAdd + wrapJump],
             forceCommit |-> FALSE]

(* The decoding of one unit by the legacy decoder.                         *)
legacyDecode(s, event) ==
    LET code == Code(event)
        data == Data(event)
        r(x) == [s |-> x, forceCommit |-> FALSE]
    IN IF IsTimestamp(event)
       THEN r([s EXCEPT !.timestamps.last = s.timestamps.current,
                        !.timestamps.current = s.timestamps.wrapAdd + (event % 32768)])
       ELSE CASE code = 0 -> legacySpecial(s, data)
              [] code = 1 -> r(legacyYAddress(s, data))
              [] code \in {2, 3} -> r(legacyXAddress(s, code, data))
              [] code = 4 -> r(legacySample(s, data))
              [] code = 5 -> r(IF (data \div 256) % 16 = 0 THEN legacyImuData(s, data % 256) ELSE s)
              [] code = 7 -> legacyWrap(s, data)
              [] OTHER -> r(s)

(* Commit thresholds of the legacy decoder.                                *)
EventTime(t, e) == IF t = "frame" THEN e.tsStartOfExposure ELSE e.timestamp

legacyInterval(s, t) ==
    LET size == s.currentPackets.position[t]
        events == s.currentPackets.packet[t].events
    IN IF size > 1 THEN EventTime(t, events[size]) - EventTime(t, events[1]) ELSE 0

legacyCommitTriggered(s, forceCommit) ==
    LET size == s.currentPackets.position
        containerCommit ==
            \/ size["polarity"] + size["special"] + size["frame"] + size["imu6"] >= MaxContainerSize
            \/ \E t \in PacketTypes : legacyInterval(s, t) >= MaxInterval
        packetCommit ==
            \E t \in PacketTypes : \/ size[t] >= s.currentPackets.packet[t].capacity
                                   \/ legacyInterval(s, t) >= MaxInterval
    IN forceCommit \/ containerCommit \/ packetCommit

(* The commit up to the ring buffer put: the Container takes the non-empty *)
(* packets (sealed numbers it, history).                                   *)
legacyCommit(s, forceCommit) ==
    IF legacyCommitTriggered(s, forceCommit)
    THEN LET s1 == [s EXCEPT !.log.commit = TRUE, !.log.forced = forceCommit,
                             !.log.atCommit = s.currentPackets.position,
                             !.container.currentPacketContainer.seq = s.sealed + 1,
                             !.sealed = @ + 1]
         IN ForcedIgnore(AttachAll(s1), forceCommit)
    ELSE s

(* The ring buffer of the data exchange: a bounded FIFO.                   *)
ringBufferPut(rb, c) ==
    IF Len(rb) < RingSize THEN [ok |-> TRUE, rb |-> Append(rb, c)] ELSE [ok |-> FALSE, rb |-> rb]

(* Taking the newest Container instead of the oldest.                      *)
ringBufferGetNewest(rb) ==
    IF rb = <<>> THEN [container |-> NoContainer, rb |-> rb]
    ELSE [container |-> rb[Len(rb)], rb |-> SubSeq(rb, 1, Len(rb) - 1)]

ringBufferGet(rb) ==
    IF rb = <<>> THEN [container |-> NoContainer, rb |-> rb]
    ELSE [container |-> Head(rb), rb |-> Tail(rb)]

(* A drop that frees the packets and leaves them in the Container's slots. *)
legacyDropContainerKeepsSlots(s) ==
    [s EXCEPT !.log.dropped = @ + 1]

(* A failed put of a Container that is not forced: its packets are freed   *)
(* and the Container is kept for reuse.                                    *)
legacyDropContainer(s) ==
    [s EXCEPT !.container.currentPacketContainer.packets = [t \in PacketTypes |-> NULL],
              !.log.dropped = @ + 1]

(* A failed put that drops the Container whether forced or not.            *)
legacyPutFailedDropsForced(s, forceCommit) ==
    [s |-> legacyDropContainer(s), next |-> "loop"]

(* retry_important: what follows a failed ringBufferPut.                   *)
legacyPutFailed(s, forceCommit) ==
    IF forceCommit THEN [s |-> s, next |-> "retry"]
    ELSE [s |-> legacyDropContainer(s), next |-> "loop"]

(* ringBufferPut of the sealed Container and what follows it, up to the    *)
(* notification of the user.                                               *)
legacyPutContainer(s, rb, forceCommit) ==
    LET p == ringBufferPut(rb, s.container.currentPacketContainer)
        f == legacyPutFailed(s, forceCommit)
    IN IF p.ok
       THEN [s |-> [s EXCEPT !.container.currentPacketContainer = NoContainer, !.log.sealed = @ + 1,
                             !.container.lastPut = s.container.currentPacketContainer.seq],
             rb |-> p.rb, next |-> "notify"]
       ELSE [s |-> f.s, rb |-> rb, next |-> f.next]

(* One whole loop iteration of the legacy decoder, up to the first         *)
(* ringBufferPut.                                                          *)
legacyTranslateUnit(s, event, rb) ==
    LET put(c, forceCommit) ==
            IF c.log.commit THEN legacyPutContainer(c, rb, forceCommit)
            ELSE [s |-> c, rb |-> rb, next |-> "loop"]
        commit(d) == put(legacyCommit(d.s, d.forceCommit), d.forceCommit)
    IN commit(legacyDecode([s EXCEPT !.log = EmptyLog, !.unitNo = @ + 1], event))

legacyAllocOrder == <<"container", "polarity", "special", "frame", "imu6">>

legacyAllocate(s, a, used) == AllocateFrom(legacyAllocOrder, MaxPacketSize, s, 1, a, used)

(* The state davisCommonDataStart leaves behind.                           *)
davisCommonDataStart(wrapAdd) ==
    [info |-> [chipID |-> "DAVIS240C"],
     dataExchangeBlocking |-> FALSE,
     timestamps |-> [wrapOverflow |-> 0, wrapAdd |-> wrapAdd, last |-> 0, current |-> 0, dvs |-> 0],
     dvs |-> [lastY |-> 0, gotY |-> FALSE, sizeX |-> 2, sizeY |-> 2, invertXY |-> FALSE],
     aps |-> [ignoreEvents |-> FALSE, globalShutter |-> FALSE, resetRead |-> TRUE,
              currentReadoutType |-> "RESET",
              countX |-> [i \in ReadoutTypes |-> 0],
              countY |-> [i \in ReadoutTypes |-> 0],
              flipX |-> FALSE, flipY |-> FALSE, invertXY |-> FALSE,
              window0SizeX |-> RoiSize, window0SizeY |-> RoiSize,
              currentResetFrame |-> [i \in 1..(RoiSize * RoiSize) |-> 0],
              rgbPixelOffset |-> 0, rgbPixelOffsetDirection |-> 0,
              currentFrameEvent |-> ZeroFrameEvent,
              invalidWrite |-> FALSE],
     imu |-> [ignoreEvents |-> FALSE, count |-> 0, tmpData |-> 0,
              accelScale |-> 0, gyroScale |-> 0, currentEvent |-> ZeroIMU6Event],
     currentPackets |->
         [packet |-> [t \in PacketTypes |->
                         PacketAllocate(CASE t = "polarity" -> 1 [] t = "special" -> 2
                                          [] t = "frame" -> 3 [] OTHER -> 4,
                                        MaxPacketSize, 0)],
          position |-> [t \in PacketTypes |-> 0]],
     container |-> [currentPacketContainer |-> EmptyContainer, lastPut |-> 0],
     unitNo |-> 0,
     sealed |-> 0,
     log |-> EmptyLog]

----------------------------------------------------------------------------
(* The MIPI-CX3 decoder.  A unit is a 32-bit word, read here as a signed   *)
(* 32-bit integer: bit 31 set means negative.                              *)

Bit(event, k) == (event \div Pow2(k)) % 2
Bits(event, k, width) == (event \div Pow2(k)) % Pow2(width)

MipiPacketTypes == {"polarity", "special"}
mipiAllocOrder == <<"container", "special", "polarity">>

mipiAllocate(s, a, used) == AllocateFrom(mipiAllocOrder, MipiDefaultSize, s, 1, a, used)

(* A group scan that starts at bit 0.                                      *)
RECURSIVE mipiGroupEventsFromLowBit(_, _, _)
mipiGroupEventsFromLowBit(s, event, i) ==
    IF i > 15 THEN s
    ELSE IF Bit(event, i) = 0 THEN mipiGroupEventsFromLowBit(s, event, i + 1)
    ELSE LET e == [timestamp |-> s.timestamps.current,
                   polarity |-> IF i >= 8 THEN 1 ELSE 0,
                   x |-> s.dvs.lastX,
                   y |-> Bits(event, 18, 6) * 8 + (7 - (i % 8))]
             t == "polarity"
         IN mipiGroupEventsFromLowBit([s EXCEPT !.currentPackets.packet[t].events = Append(@, e),
                                                !.currentPackets.position[t] = @ + 1,
                                                !.log.appended[t] = @ + 1],
                                      event, i + 1)

(* SGROUP: up to 16 polarity events of one 8-pixel group, after room for   *)
(* 16 events was made.                                                     *)
RECURSIVE mipiGroupEvents(_, _, _)
mipiGroupEvents(s, event, i) ==
    IF i > 15 THEN s
    ELSE IF Bit(event, 15 - i) = 0 THEN mipiGroupEvents(s, event, i + 1)
    ELSE LET e == [timestamp |-> s.timestamps.current,
                   polarity |-> IF i >= 8 THEN 1 ELSE 0,
                   x |-> s.dvs.lastX,
                   y |-> Bits(event, 18, 6) * 8 + (7 - (i % 8))]
             t == "polarity"
         IN mipiGroupEvents([s EXCEPT !.currentPackets.packet[t].events = Append(@, e),
                                      !.currentPackets.position[t] = @ + 1,
                                      !.log.appended[t] = @ + 1],
                            event, i + 1)

mipiGroup(s, event, g) ==
    LET mgroup == \E k \in {25, 26, 28, 29, 30} : Bit(event, k) = 1
        r == ensureSpaceForEvents(s.currentPackets.packet["polarity"],
                                  s.currentPackets.position["polarity"], 16, g["polarity"])
    IN IF mgroup THEN s
       ELSE IF r.ok
            THEN mipiGroupEvents([s EXCEPT !.currentPackets.packet["polarity"] = r.packet], event, 0)
            ELSE [s EXCEPT !.log.refused = @ \cup {"polarity"}]

(* A Column handler that advances the reference on every sub-timestamp    *)
(* that decreased.                                                         *)
mipiColumnAlwaysAdvances(s, event, g) ==
    LET columnAddr == Bits(event, 0, 10)
        timestampSub == Bits(event, 11, 10)
        ts == s.timestamps
        ts1 == IF timestampSub # ts.lastSub
               THEN LET lastRef == IF timestampSub < ts.lastSub
                                   THEN ts.lastReference + 1000 ELSE ts.lastReference
                    IN [ts EXCEPT !.lastReference = lastRef, !.currentReference = lastRef]
               ELSE ts
        ts2 == [ts1 EXCEPT !.lastSub = timestampSub, !.last = ts.current,
                           !.current = ts1.currentReference + timestampSub]
        s1 == [s EXCEPT !.dvs.lastX = columnAddr, !.timestamps = ts2,
                        !.container = containerGenerationCommitTimestampInit(@, ts2.current)]
    IN IF Bit(event, 21) = 1
       THEN PutEvent(s1, "special", SpecialEvent(ts2.current, "EVENT_READOUT_START"), g)
       ELSE s1

(* COLUMN: column address, sub-timestamp and the start-of-frame marker.    *)
mipiColumn(s, event, g) ==
    LET columnAddr == Bits(event, 0, 10)
        timestampSub == Bits(event, 11, 10)
        startOfFrame == Bit(event, 21) = 1
        ts == s.timestamps
        ts1 == IF timestampSub # ts.lastSub
               THEN LET lastRef == IF ts.currentReference = ts.lastReference /\ timestampSub < ts.lastSub
                                   THEN ts.lastReference + 1000 ELSE ts.lastReference
                    IN [ts EXCEPT !.lastReference = lastRef, !.currentReference = lastRef]
               ELSE ts
        ts2 == [ts1 EXCEPT !.lastSub = timestampSub, !.last = ts.current,
                           !.current = ts1.currentReference + timestampSub]
        s1 == [s EXCEPT !.dvs.lastX = columnAddr, !.timestamps = ts2,
                        !.container = containerGenerationCommitTimestampInit(@, ts2.current)]
    IN IF startOfFrame
       THEN PutEvent(s1, "special", SpecialEvent(ts2.current, "EVENT_READOUT_START"), g)
       ELSE s1

(* The decoding of one unit; skip is the continue of a group unit that     *)
(* comes before any timestamp.                                             *)
mipiDecode(s, event, g) ==
    IF event < 0
    THEN IF s.container.commitTimestamp = -1 THEN [s |-> s, skip |-> TRUE]
         ELSE [s |-> mipiGroup(s, event, g), skip |-> FALSE]
    ELSE LET s1 == IF Bit(event, 26) = 1 THEN mipiColumn(s, event, g) ELSE s
             s2 == IF Bit(event, 27) = 1
                   THEN [s1 EXCEPT !.timestamps.lastReference = Bits(event, 0, 22) * 1000]
                   ELSE s1
         IN [s |-> s2, skip |-> FALSE]

mipiCommitTriggered(s) ==
    LET size == containerGenerationGetMaxPacketSize(s.container)
        containerSizeCommit == size > 0 /\ \E t \in MipiPacketTypes : s.currentPackets.position[t] >= size
        containerTimeCommit == containerGenerationIsCommitTimestampElapsed(s.container, 0, s.timestamps.current)
    IN containerSizeCommit \/ containerTimeCommit

mipiCommit(s) ==
    IF mipiCommitTriggered(s)
    THEN LET s1 == [s EXCEPT !.log.commit = TRUE,
                             !.log.atCommit = [t \in PacketTypes |->
                                                  IF t \in MipiPacketTypes
                                                  THEN s.currentPackets.position[t] ELSE 0]]
         IN AttachPacket(AttachPacket(s1, "polarity"), "special")
    ELSE s

(* One whole loop iteration of mipiCx3EventTranslator.  written holds the  *)
(* polarity events the unit wrote into the polarity packet and columnSeen  *)
(* tells whether a Column unit was decoded so far (history, never read by  *)
(* the decoder).                                                           *)
mipiTranslateUnit(s, event, g, full, id) ==
    LET d == mipiDecode([s EXCEPT !.log = EmptyLog], event, g)
        c == mipiCommit(d.s)
        before == s.currentPackets.packet["polarity"].events
        after == d.s.currentPackets.packet["polarity"].events
        ghost(r) == [r EXCEPT !.written = SubSeq(after, Len(before) + 1, Len(after)),
                              !.columnSeen = @ \/ (event >= 0 /\ Bit(event, 26) = 1)]
    IN ghost(IF d.skip THEN d.s
             ELSE IF c.log.commit
                  THEN containerGenerationExecute(c, c.log.attached = {}, FALSE, full, id)
                  ELSE c)

mipiUnitCommits(s, event, g) ==
    LET d == mipiDecode([s EXCEPT !.log = EmptyLog], event, g)
    IN ~d.skip /\ mipiCommitTriggered(d.s)

(* The state mipiCx3DataStart leaves behind.                               *)
mipiCx3DataStart ==
    [timestamps |-> [lastReference |-> 0, currentReference |-> 0, lastSub |-> 0,
                     last |-> 0, current |-> 0, wrapOverflow |-> 0],
     dvs |-> [lastX |-> 0],
     currentPackets |->
         [packet |-> [t \in MipiPacketTypes |->
                         PacketAllocate(IF t = "polarity" THEN 1 ELSE 2, MipiDefaultSize, 0)],
          position |-> [t \in MipiPacketTypes |-> 0]],
     container |-> [currentPacketContainer |-> EmptyContainer, commitTimestamp |-> -1,
                    pending |-> NoContainer],
     written |-> <<>>,
     columnSeen |-> FALSE,
     log |-> EmptyLog]

M_COLUMN(columnAddr, timestampSub, startOfFrame) ==
    Pow2(26) + startOfFrame * Pow2(21) + timestampSub * Pow2(11) + columnAddr
M_TIMESTAMP(timestampRef) == Pow2(27) + timestampRef
M_SGROUP(groupAddr, mask) == (-INT32_MAX - 1) + groupAddr * Pow2(18) + mask

----------------------------------------------------------------------------
(* The state davisDataStart leaves behind.                                 *)

InitPackets ==
    [packet |-> [t \in PacketTypes |->
                    PacketAllocate(CASE t = "polarity" -> 1 [] t = "special" -> 2
                                     [] t = "frame" -> 3 [] OTHER -> 4,
                                   PacketDefaultSize, 0)],
     position |-> [t \in PacketTypes |-> 0]]

davisDataStart(wrapAdd) ==
    [info |-> [chipID |-> "DAVIS346"],
     aps |-> [ignoreEvents |-> TRUE, globalShutter |-> FALSE,
              flipX |-> FALSE, flipY |-> FALSE, invertXY |-> FALSE,
              currentReadoutType |-> "RESET",
              countX |-> [i \in ReadoutTypes |-> 0],
              countY |-> [i \in ReadoutTypes |-> 0],
              expectedCountX |-> RoiSize, expectedCountY |-> RoiSize,
              roi |-> [positionX |-> 0, positionY |-> 0, sizeX |-> RoiSize, sizeY |-> RoiSize,
                       tmpData |-> 0, update |-> 0],
              frame |-> [tsStartFrame |-> 0, tsStartExposure |-> 0, tsEndExposure |-> 0,
                         pixels |-> [i \in 1..(RoiSize * RoiSize) |-> 0],
                         outOfRange |-> FALSE],
              autoExposure |-> [tmpData |-> 0, currentFrameExposure |-> 0],
              cDavisSupport |-> [offsetDirection |-> 0, offset |-> 0]],
     imu |-> [ignoreEvents |-> TRUE, count |-> 0, type |-> {}, tmpData |-> 0,
              flipX |-> FALSE, flipY |-> FALSE, flipZ |-> FALSE,
              accelScaleSel |-> 0, gyroScaleSel |-> 0,
              currentEvent |-> ZeroIMU6Event,
              fields |-> 0],
     dvs |-> [lastY |-> 0, sizeX |-> 3, sizeY |-> 2, invertXY |-> FALSE],
     timestamps |-> [wrapOverflow |-> 0, wrapAdd |-> wrapAdd, last |-> 0, current |-> 0],
     currentPackets |-> InitPackets,
     container |-> [currentPacketContainer |-> EmptyContainer, commitTimestamp |-> -1,
                    pending |-> NoContainer],
     forcedSince |-> [aps |-> FALSE, imu |-> FALSE],
     rowMismatch |-> FALSE,
     exposure |-> [start |-> "never", end |-> "never"],
     log |-> EmptyLog]

----------------------------------------------------------------------------
(* Protocol units.                                                         *)

U_TS_RESET == Unit(0, 1)
U_EXT_INPUT == Unit(0, 3)
U_IMU_START == Unit(0, 5)
U_IMU_END == Unit(0, 7)
U_FRAME_START == Unit(0, 9)
U_FRAME_END == Unit(0, 10)
U_COL_START_RESET == Unit(0, 11)
U_COL_START_SIGNAL == Unit(0, 12)
U_COL_END == Unit(0, 13)
U_SAMPLE == Unit(4, 500)
U_IMU_DATA == Unit(5, 1)
U_IMU_SCALE_ALL == Unit(5, 768 + 224)
U_WRAP == Unit(7, 2048)
U_WRAP_ODD == Unit(7, 2049)
U_TIMESTAMP == 32768 + 3
U_Y_ADDR == Unit(1, 1)
U_X2_ON == Unit(3, 2)
U_TIMESTAMP_2 == 32768 + 2
U_X_ADDR == Unit(3, 1)
U_FRAME_START_NORST == Unit(0, 15)
U_ROI_END_0 == Unit(5, 512)
U_ROI_END_1 == Unit(5, 513)

IsImuData(event) == ~IsTimestamp(event) /\ Code(event) = 5 /\ (Data(event) \div 256) % 16 = 0
IsWrap(event) == ~IsTimestamp(event) /\ Code(event) = 7

(* The failures of the allocator that can matter in a state: growing a    *)
(* full packet, and an allocation that the loop top has to make.           *)
GrowChoices(s) ==
    {[t \in PacketTypes |-> TRUE]}
        \cup {[t \in PacketTypes |-> t # f] :
                 f \in {x \in PacketTypes : s.currentPackets.position[x] >= s.currentPackets.packet[x].capacity}}
AllocChoices(s) == {"none"} \cup {a \in {"container", "special", "polarity", "frame", "imu6"} : AllocNeeded(s, a)}
UnitWidth(d) == IF d = "mipi" THEN 4 ELSE 2
UnitBytes == UnitWidth(dev)
BufferSizes == buf.sizes

(* bytesSent &= ~0x01 (~0x03 for 32-bit units) clears the low bits.        *)
Truncate(bytesSent) == bytesSent - (bytesSent % UnitBytes)

(* for (i = 0; i < bytesSent; i += width): the iterations of the loop.     *)
LoopIterations(bytesSent) ==
    Cardinality({i \in 0..(bytesSent - 1) : i % UnitBytes = 0})

(* The loop index after a step; the buffer is forgotten when the           *)
(* invocation returns.                                                     *)
BufAfter(b, advance, next) ==
    IF next = "idle" THEN [b EXCEPT !.n = 0, !.pos = 0]
    ELSE [b EXCEPT !.pos = @ + advance]

(* The counters of the code are 8 to 64 bits wide; the runs explored stop  *)
(* feeding the units that would push them past the bounds of the model.    *)
davisUnitInBounds(s, event) ==
    /\ event = U_COL_END /\ ~s.aps.ignoreEvents => s.aps.countX[s.aps.currentReadoutType] < MaxCount
    /\ event \in {U_ROI_END_0, U_ROI_END_1} => s.aps.roi.update < MaxRoiUpdates
    /\ event = U_SAMPLE /\ IS_DAVIS640H(s.info.chipID) => s.aps.cDavisSupport.offset < MaxOffset
    /\ IsImuData(event) /\ ~s.imu.ignoreEvents => s.imu.fields < MaxImuCount
    /\ IsWrap(event) =>
           INT32_MAX - s.timestamps.wrapAdd < MaxWrapSteps * TS_WRAP_ADD * Data(event)

NoEv == [kind |-> "init", unit |-> 0]

----------------------------------------------------------------------------
(* Actions.                                                                *)

(* The top of an invocation past the running check: truncation and loop   *)
(* entry.  The begin entry of the log carries bytesSent.                   *)
EnterLoop(bytesSent, size) ==
    /\ unitsLeft' = LoopIterations(size)
    /\ pc' = IF LoopIterations(size) > 0 THEN "loop" ELSE "idle"
    /\ buf' = IF LoopIterations(size) > 0 THEN [buf EXCEPT !.n = bytesSent, !.pos = 0] ELSE buf
    /\ ev' = [kind |-> "begin", unit |-> bytesSent]

(* A translator that does not look at the running flag.                    *)
BeginTranslateUnchecked ==
    /\ pc = "idle"
    /\ \E bytesSent \in BufferSizes : EnterLoop(bytesSent, Truncate(bytesSent))
    /\ UNCHANGED <<dev, units, running, state, ring, cons, notify>>

(* A translator that does not truncate the buffer.                         *)
BeginTranslateNoTruncate ==
    /\ pc = "idle"
    /\ \E bytesSent \in BufferSizes :
          IF dev # "legacy" /\ ~running
          THEN /\ ev' = [kind |-> "noop", unit |-> 0]
               /\ UNCHANGED <<pc, unitsLeft, buf>>
          ELSE EnterLoop(bytesSent, bytesSent)
    /\ UNCHANGED <<dev, units, running, state, ring, cons, notify>>

(* The USB side delivers a buffer: the top of a translator invocation.     *)
(* The legacy translator has no running check.                             *)
BeginTranslate ==
    /\ pc = "idle"
    /\ \E bytesSent \in BufferSizes :
          IF dev # "legacy" /\ ~running
          THEN /\ ev' = [kind |-> "noop", unit |-> 0]
               /\ UNCHANGED <<pc, unitsLeft, buf>>
          ELSE EnterLoop(bytesSent, Truncate(bytesSent))
    /\ UNCHANGED <<dev, units, running, state, ring, cons, notify>>

AfterUnit(left) == IF left = 0 THEN "idle" ELSE "loop"

(* One loop iteration of davisEventTranslator (current decoder).           *)
davisUsed(s) ==
    ContainerIds(s.container.currentPacketContainer) \cup ContainerIds(s.container.pending)

davisTranslate ==
    /\ dev = "davis" /\ pc = "loop" /\ unitsLeft > 0
    /\ \E event \in units, a \in AllocChoices(state) :
          /\ davisUnitInBounds(state, event)
          /\ LET al == davisAllocate(state, a, davisUsed(state))
             IN IF ~al.ok
                THEN /\ state' = [al.s EXCEPT !.log = EmptyLog]
                     /\ pc' = "idle" /\ unitsLeft' = 0
                     /\ buf' = BufAfter(buf, 0, "idle")
                     /\ ev' = [kind |-> "allocfail", unit |-> 0]
                ELSE \E g \in GrowChoices(al.s) :
                        \E full \in IF davisUnitCommits(al.s, event, g) THEN BOOLEAN ELSE {FALSE} :
                          LET r == davisTranslateUnit(al.s, event, g, full,
                                                      FreshId(davisUsed(al.s) \cup ManagerIds(al.s)))
                          IN /\ state' = r
                             /\ unitsLeft' = unitsLeft - 1
                             /\ pc' = IF r.container.pending.alloc THEN "retry"
                                      ELSE AfterUnit(unitsLeft - 1)
                             /\ buf' = BufAfter(buf, UnitBytes, pc')
                             /\ ev' = [kind |-> "unit", unit |-> event]
    /\ UNCHANGED <<dev, units, running, ring, cons, notify>>

(* The producer spins until the reset Container is in the data exchange;   *)
(* it gives up when it finds the running flag cleared.                     *)
davisRetryPut ==
    /\ dev \in {"davis", "mipi"} /\ pc = "retry"
    /\ \E full \in BOOLEAN :
          LET r == ExecutePutReset([state EXCEPT !.log = EmptyLog], full)
          IN IF r.container.pending.alloc /\ ~running
             THEN /\ state' = [r EXCEPT !.container.pending = NoContainer, !.log.dropped = @ + 1]
                  /\ pc' = AfterUnit(unitsLeft)
                  /\ buf' = BufAfter(buf, 0, pc')
             ELSE /\ state' = r
                  /\ pc' = IF r.container.pending.alloc THEN "retry" ELSE AfterUnit(unitsLeft)
                  /\ buf' = BufAfter(buf, 0, pc')
    /\ ev' = [kind |-> "retry", unit |-> 0]
    /\ UNCHANGED <<dev, units, running, unitsLeft, ring, cons, notify>>

(* One loop iteration of mipiCx3EventTranslator.                           *)
mipiGrowChoices(s) ==
    {[t \in MipiPacketTypes |-> TRUE]}
        \cup {[t \in MipiPacketTypes |-> t # f] :
                 f \in {x \in MipiPacketTypes :
                           s.currentPackets.position[x] + (IF x = "polarity" THEN 16 ELSE 1)
                               > s.currentPackets.packet[x].capacity}}

mipiAllocChoices(s) == {"none"} \cup {a \in {"container", "special", "polarity"} : AllocNeeded(s, a)}

mipiTranslate ==
    /\ dev = "mipi" /\ pc = "loop" /\ unitsLeft > 0
    /\ \E event \in units, a \in mipiAllocChoices(state) :
          LET al == mipiAllocate(state, a, davisUsed(state))
          IN IF ~al.ok
             THEN /\ state' = [al.s EXCEPT !.log = EmptyLog]
                  /\ pc' = "idle" /\ unitsLeft' = 0
                  /\ buf' = BufAfter(buf, 0, "idle")
                  /\ ev' = [kind |-> "allocfail", unit |-> 0]
             ELSE \E g \in mipiGrowChoices(al.s) :
                     \E full \in IF mipiUnitCommits(al.s, event, g) THEN BOOLEAN ELSE {FALSE} :
                       LET r == mipiTranslateUnit(al.s, event, g, full,
                                                  FreshId(davisUsed(al.s) \cup ManagerIds(al.s)))
                       IN /\ state' = r
                          /\ unitsLeft' = unitsLeft - 1
                          /\ pc' = AfterUnit(unitsLeft - 1)
                          /\ buf' = BufAfter(buf, UnitBytes, pc')
                          /\ ev' = [kind |-> "unit", unit |-> event]
    /\ UNCHANGED <<dev, units, running, ring, cons, notify>>

(* One loop iteration of the legacy davisEventTranslator, up to the first  *)
(* ringBufferPut of a commit.                                              *)
legacyUsed(s) ==
    ContainerIds(s.container.currentPacketContainer) \cup RingIds(ring)
        \cup ContainerIds(cons.container)

legacyUnitInBounds(s, event) ==
    /\ s.unitNo < MaxSteps
    /\ event = U_COL_END /\ ~s.aps.ignoreEvents => s.aps.countX[s.aps.currentReadoutType] < MaxCount
    /\ IsWrap(event) =>
           INT32_MAX - s.timestamps.wrapAdd < MaxWrapSteps * TS_WRAP_ADD * Data(event)

legacyTranslate ==
    /\ dev = "legacy" /\ pc = "loop" /\ unitsLeft > 0
    /\ \E event \in units, a \in AllocChoices(state) :
          /\ legacyUnitInBounds(state, event)
          /\ LET al == legacyAllocate(state, a, legacyUsed(state))
             IN IF ~al.ok
                THEN /\ state' = [al.s EXCEPT !.log = EmptyLog]
                     /\ pc' = "idle" /\ unitsLeft' = 0
                     /\ buf' = BufAfter(buf, 0, "idle")
                     /\ ring' = ring
                     /\ ev' = [kind |-> "allocfail", unit |-> 0]
                ELSE LET r == legacyTranslateUnit(al.s, event, ring)
                     IN /\ state' = r.s
                        /\ ring' = r.rb
                        /\ unitsLeft' = unitsLeft - 1
                        /\ pc' = IF r.next = "loop" THEN AfterUnit(unitsLeft - 1) ELSE r.next
                        /\ buf' = BufAfter(buf, UnitBytes, pc')
                        /\ ev' = [kind |-> "unit", unit |-> event]
    /\ UNCHANGED <<dev, units, running, cons, notify>>

(* A retry loop that spins without calling ringBufferPut again.            *)
legacyRetryWithoutPut ==
    /\ dev = "legacy" /\ pc = "retry"
    /\ UNCHANGED vars

(* retry_important: the producer spins on ringBufferPut with the same      *)
(* Container until it is in the ring buffer.                               *)
legacyRetryPut ==
    /\ dev = "legacy" /\ pc = "retry"
    /\ LET r == legacyPutContainer([state EXCEPT !.log.sealed = 0], ring, TRUE)
       IN /\ r.next = "notify"
          /\ state' = r.s
          /\ ring' = r.rb
          /\ pc' = "notify"
          /\ buf' = BufAfter(buf, 0, pc')
    /\ ev' = [kind |-> "retry", unit |-> 0]
    /\ UNCHANGED <<dev, units, running, unitsLeft, cons, notify>>

(* A successful put that goes on without calling dataNotifyIncrease.       *)
legacyNoNotifyIncrease ==
    /\ dev = "legacy" /\ pc = "notify"
    /\ pc' = AfterUnit(unitsLeft)
    /\ buf' = BufAfter(buf, 0, pc')
    /\ UNCHANGED <<dev, units, running, unitsLeft, state, ring, cons, notify, ev>>

(* dataNotifyIncrease after a successful put; the loop goes on.            *)
legacyNotifyIncrease ==
    /\ dev = "legacy" /\ pc = "notify"
    /\ notify' = notify + 1
    /\ pc' = AfterUnit(unitsLeft)
    /\ buf' = BufAfter(buf, 0, pc')
    /\ UNCHANGED <<dev, units, running, unitsLeft, state, ring, cons, ev>>

(* A get that takes the newest Container of the ring buffer.               *)
davisCommonDataGetNewest ==
    /\ dev = "legacy" /\ cons.pc = "idle"
    /\ LET g == ringBufferGetNewest(ring)
       IN /\ g.container.alloc
          /\ ring' = g.rb
          /\ cons' = [cons EXCEPT !.pc = "got", !.container = g.container,
                               !.lastSeq = cons.container.seq]
    /\ UNCHANGED <<dev, units, running, pc, unitsLeft, state, notify, ev, buf>>

(* The consumer: davisCommonDataGet takes the oldest Container from the    *)
(* ring buffer (the one it got before is the user's to free), then calls   *)
(* dataNotifyDecrease.  On an empty ring buffer it returns NULL or, in     *)
(* blocking mode, tries again: nothing changes.                            *)
davisCommonDataGet ==
    /\ dev = "legacy" /\ cons.pc = "idle" /\ pc # "joined"
    /\ LET g == ringBufferGet(ring)
       IN /\ g.container.alloc
          /\ ring' = g.rb
          /\ cons' = [cons EXCEPT !.pc = "got", !.container = g.container,
                               !.lastSeq = cons.container.seq]
    /\ UNCHANGED <<dev, units, running, pc, unitsLeft, state, notify, ev, buf>>

davisCommonDataGetNotify ==
    /\ dev = "legacy" /\ cons.pc = "got"
    /\ notify' = notify - 1
    /\ cons' = [cons EXCEPT !.pc = "idle", !.result = "container"]
    /\ UNCHANGED <<dev, units, running, pc, unitsLeft, state, ring, ev, buf>>

(* ringBufferGet finds the ring buffer empty.                              *)
davisCommonDataGetEmpty ==
    /\ dev = "legacy" /\ cons.pc = "idle" /\ pc # "joined"
    /\ ~ringBufferGet(ring).container.alloc
    /\ cons' = [cons EXCEPT !.pc = "empty"]
    /\ UNCHANGED <<dev, units, running, pc, unitsLeft, state, ring, notify, ev, buf>>

(* A get that returns NULL from an empty ring buffer whatever the flag.    *)
davisCommonDataGetNoDataNeverBlocks ==
    /\ dev = "legacy" /\ cons.pc = "empty"
    /\ cons' = [cons EXCEPT !.pc = "idle", !.result = "null"]
    /\ UNCHANGED <<dev, units, running, pc, unitsLeft, state, ring, notify, ev, buf>>

(* After an empty get the call reads dataExchangeBlocking: it goes back   *)
(* to retry when the flag is set and returns NULL otherwise.               *)
davisCommonDataGetNoData ==
    /\ dev = "legacy" /\ cons.pc = "empty"
    /\ cons' = [cons EXCEPT !.pc = "idle",
                            !.result = IF state.dataExchangeBlocking THEN "retry" ELSE "null"]
    /\ UNCHANGED <<dev, units, running, pc, unitsLeft, state, ring, notify, ev, buf>>

(* davisCommonConfigSet of CAER_HOST_CONFIG_DATAEXCHANGE_BLOCKING, from    *)
(* any thread.                                                             *)
SetDataExchangeBlocking ==
    /\ dev = "legacy"
    /\ \E param \in BOOLEAN :
          /\ param # state.dataExchangeBlocking
          /\ state' = [state EXCEPT !.dataExchangeBlocking = param]
    /\ UNCHANGED <<dev, units, running, pc, unitsLeft, ring, cons, notify, ev, buf>>

(* davisCommonDataStop, called by the user's thread between two gets: it   *)
(* clears dataAcquisitionThreadRun and joins the producer, which ends      *)
(* between two invocations of the translator.                              *)
davisCommonDataStopJoin ==
    /\ dev = "legacy" /\ running /\ pc = "idle" /\ cons.pc = "idle"
    /\ running' = FALSE
    /\ pc' = "joined"
    /\ UNCHANGED <<dev, units, unitsLeft, state, ring, cons, notify, ev, buf>>

(* One ringBufferGet of the loop that empties the ring buffer.             *)
(* davisCommonDataStop in two steps: the store that clears the run flag,   *)
(* at any position of the acquisition thread, and the return of            *)
(* pthread_join once the thread is out of the translator.  The caller is   *)
(* the consumer's thread, which waits in between.                          *)
davisCommonDataStopClear ==
    /\ dev = "legacy" /\ running /\ cons.pc = "idle" /\ pc \notin {"joined", "stopped"}
    /\ running' = FALSE
    /\ cons' = [cons EXCEPT !.pc = "join"]
    /\ UNCHANGED <<dev, units, pc, unitsLeft, state, ring, notify, ev, buf>>

davisCommonDataStopJoined ==
    /\ dev = "legacy" /\ ~running /\ cons.pc = "join" /\ pc = "idle"
    /\ pc' = "joined"
    /\ cons' = [cons EXCEPT !.pc = "idle"]
    /\ UNCHANGED <<dev, units, running, unitsLeft, state, ring, notify, ev, buf>>

davisCommonDataStopGet ==
    /\ dev = "legacy" /\ pc = "joined" /\ cons.pc = "idle"
    /\ LET g == ringBufferGet(ring)
       IN /\ g.container.alloc
          /\ ring' = g.rb
          /\ cons' = [cons EXCEPT !.pc = "drain"]
    /\ UNCHANGED <<dev, units, running, pc, unitsLeft, state, notify, ev, buf>>

(* dataNotifyDecrease for the Container taken, which is then freed; ev     *)
(* counts the Containers drained so far.                                   *)
davisCommonDataStopNotify ==
    /\ dev = "legacy" /\ cons.pc = "drain"
    /\ notify' = notify - 1
    /\ cons' = [cons EXCEPT !.pc = "idle"]
    /\ ev' = [kind |-> "drain", unit |-> IF ev.kind = "drain" THEN ev.unit + 1 ELSE 1]
    /\ UNCHANGED <<dev, units, running, pc, unitsLeft, state, ring, buf>>

(* What a data stop leaves of the Manager once the ring buffer is empty:   *)
(* freeAllDataMemory, the write positions and the private events.  The     *)
(* first version leaves the write positions as they were.                  *)
dataStopStateKeepsPositions(s) ==
    [s EXCEPT !.currentPackets.packet = [t \in PacketTypes |-> NULL],
              !.container.currentPacketContainer = NoContainer,
              !.imu.currentEvent = ZeroIMU6Event]

dataStopState(s) ==
    [s EXCEPT !.currentPackets.packet = [t \in PacketTypes |-> NULL],
              !.currentPackets.position = [t \in PacketTypes |-> 0],
              !.container.currentPacketContainer = NoContainer,
              !.imu.currentEvent = ZeroIMU6Event]

(* The rest of davisCommonDataStop, after the loop found the ring buffer   *)
(* empty.                                                                  *)
davisCommonDataStopFree ==
    /\ dev = "legacy" /\ pc = "joined" /\ cons.pc = "idle"
    /\ ~ringBufferGet(ring).container.alloc
    /\ state' = [dataStopState(state) EXCEPT !.aps.currentResetFrame = <<>>,
                                             !.aps.currentFrameEvent = ZeroFrameEvent]
    /\ pc' = "stopped"
    /\ ev' = [kind |-> "stopped", unit |-> IF ev.kind = "drain" THEN ev.unit ELSE 0]
    /\ UNCHANGED <<dev, units, running, unitsLeft, ring, cons, notify, buf>>

(* davisDataStop of the current driver, called between two invocations of  *)
(* the translator: the producers and the USB transfers are stopped, the    *)
(* data exchange is emptied and the Manager is torn down.                  *)
davisDataStop ==
    /\ dev = "davis" /\ pc = "idle" /\ running
    /\ running' = FALSE
    /\ state' = [dataStopState(state) EXCEPT !.aps.frame.pixels = <<>>]
    /\ pc' = "stopped"
    /\ ev' = [kind |-> "stopped", unit |-> 0]
    /\ UNCHANGED <<dev, units, unitsLeft, ring, cons, notify, buf>>

(* davisDataStart and davisCommonDataStart step by step.  fail names the   *)
(* step of the call that fails (an allocation returning NULL, the start of *)
(* the USB transfers or of the thread), held the memory allocated so far.  *)
StartSteps(decoder) ==
    IF decoder = "davis"
    THEN <<"ring", "container", "polarity", "special", "frame", "imu6",
           "pixels", "resetPixels", "signalPixels", "transfers">>
    ELSE <<"ring", "container", "polarity", "special", "frame", "imu6", "resetFrame", "thread">>

StartAllocations ==
    {"ring", "container", "polarity", "special", "frame", "imu6",
     "pixels", "resetPixels", "signalPixels", "resetFrame"}

(* The test that follows each step.  After the calloc of                   *)
(* apsCurrentResetFrame the legacy code tests currentIMU6Packet.           *)
StartFailureSeen(decoder, step, ok, held) ==
    IF decoder = "legacy" /\ step = "resetFrame" THEN "imu6" \notin held ELSE ~ok

freeAllDataMemory(decoder, held) ==
    IF decoder = "davis"
    THEN held \ {"ring", "polarity", "special", "frame", "imu6", "container",
                 "pixels", "resetPixels", "signalPixels"}
    ELSE held \ {"ring", "polarity", "special", "frame", "imu6", "container", "resetFrame"}

dataStartStep ==
    /\ dev = "start" /\ state.pc = "step"
    /\ LET step == StartSteps(state.decoder)[state.i]
           ok == step # state.fail
           held == IF ok /\ step \in StartAllocations THEN state.held \cup {step} ELSE state.held
           started == state.started \/ (ok /\ step \notin StartAllocations)
       IN state' =
             IF StartFailureSeen(state.decoder, step, ok, held)
             THEN [state EXCEPT !.held = held, !.started = started, !.result = FALSE,
                                !.pc = IF step = "ring" THEN "done" ELSE "free"]
             ELSE IF state.i = Len(StartSteps(state.decoder))
                  THEN [state EXCEPT !.held = held, !.started = started, !.result = TRUE,
                                     !.pc = "done"]
                  ELSE [state EXCEPT !.held = held, !.started = started, !.i = @ + 1]
    /\ UNCHANGED <<dev, units, running, pc, unitsLeft, ring, cons, notify, ev, buf>>

dataStartFreeAll ==
    /\ dev = "start" /\ state.pc = "free"
    /\ state' = [state EXCEPT !.held = freeAllDataMemory(state.decoder, @), !.pc = "done"]
    /\ UNCHANGED <<dev, units, running, pc, unitsLeft, ring, cons, notify, ev, buf>>

(* The bias encoders.  A bias word is a 16-bit integer; the masks and      *)
(* shifts are written as remainders and quotients.  The boolean fields of  *)
(* a coarse-fine bias take the truth value of the masked bit.              *)
caerBiasVDACGenerate(vdacBias) ==
    (vdacBias.voltageValue % 64) + (vdacBias.currentValue % 8) * 64

(* A parse that takes currentValue one bit too low.                        *)
caerBiasVDACParseShifted(vdacBias) ==
    [voltageValue |-> vdacBias % 64, currentValue |-> (vdacBias \div 32) % 8]

caerBiasVDACParse(vdacBias) ==
    [voltageValue |-> vdacBias % 64, currentValue |-> (vdacBias \div 64) % 8]

caerBiasCoarseFineGenerate(coarseFineBias) ==
    (IF coarseFineBias.enabled THEN 1 ELSE 0)
        + (IF coarseFineBias.sexN THEN 2 ELSE 0)
        + (IF coarseFineBias.typeNormal THEN 4 ELSE 0)
        + (IF coarseFineBias.currentLevelNormal THEN 8 ELSE 0)
        + (coarseFineBias.fineValue % 256) * 16
        + (coarseFineBias.coarseValue % 8) * 4096

caerBiasCoarseFineParse(coarseFineBias) ==
    [enabled |-> coarseFineBias % 2 = 1,
     sexN |-> (coarseFineBias \div 2) % 2 = 1,
     typeNormal |-> (coarseFineBias \div 4) % 2 = 1,
     currentLevelNormal |-> (coarseFineBias \div 8) % 2 = 1,
     fineValue |-> ((coarseFineBias \div 16) % 256) % 256,
     coarseValue |-> (((coarseFineBias \div 4096) % 65536) % 256) % 8]

caerBiasShiftedSourceGenerate(shiftedSourceBias) ==
    (CASE shiftedSourceBias.operatingMode = "HI_Z" -> 1
       [] shiftedSourceBias.operatingMode = "TIED_TO_RAIL" -> 2
       [] OTHER -> 0)
        + (CASE shiftedSourceBias.voltageLevel = "SINGLE_DIODE" -> 4
             [] shiftedSourceBias.voltageLevel = "DOUBLE_DIODE" -> 8
             [] OTHER -> 0)
        + (shiftedSourceBias.refValue % 64) * 16
        + (shiftedSourceBias.regValue % 64) * 1024

caerBiasShiftedSourceParse(shiftedSourceBias) ==
    [operatingMode |-> IF shiftedSourceBias % 2 = 1 THEN "HI_Z"
                       ELSE IF (shiftedSourceBias \div 2) % 2 = 1 THEN "TIED_TO_RAIL"
                       ELSE "SHIFTED_SOURCE",
     voltageLevel |-> IF (shiftedSourceBias \div 4) % 2 = 1 THEN "SINGLE_DIODE"
                      ELSE IF (shiftedSourceBias \div 8) % 2 = 1 THEN "DOUBLE_DIODE"
                      ELSE "SPLIT_GATE",
     refValue |-> (shiftedSourceBias \div 16) % 64,
     regValue |-> (shiftedSourceBias \div 1024) % 64]

BiasKinds == {"vdac", "coarsefine", "shiftedsource"}

BiasGenerate(kind, b) ==
    CASE kind = "vdac" -> caerBiasVDACGenerate(b)
      [] kind = "coarsefine" -> caerBiasCoarseFineGenerate(b)
      [] OTHER -> caerBiasShiftedSourceGenerate(b)

BiasParse(kind, w) ==
    CASE kind = "vdac" -> caerBiasVDACParse(w)
      [] kind = "coarsefine" -> caerBiasCoarseFineParse(w)
      [] OTHER -> caerBiasShiftedSourceParse(w)

(* The bias values whose fields lie within their bit widths, and the words *)
(* restricted to the bits each encoding uses.                              *)
BiasValues(kind) ==
    CASE kind = "vdac" -> [voltageValue : 0..63, currentValue : 0..7]
      [] kind = "coarsefine" ->
            [enabled : BOOLEAN, sexN : BOOLEAN, typeNormal : BOOLEAN,
             currentLevelNormal : BOOLEAN, fineValue : 0..255, coarseValue : 0..7]
      [] OTHER ->
            [operatingMode : {"SHIFTED_SOURCE", "HI_Z", "TIED_TO_RAIL"},
             voltageLevel : {"SPLIT_GATE", "SINGLE_DIODE", "DOUBLE_DIODE"},
             refValue : {0, 1, 42, 63}, regValue : {0, 1, 21, 63}]

BiasWords(kind) ==
    CASE kind = "vdac" -> 0..511
      [] kind = "coarsefine" -> 0..32767
      [] OTHER -> {16 * k : k \in 0..63} \cup 0..15

(* A caller that generates a bias word and parses it back.                 *)
BiasEncode ==
    /\ dev = "bias" /\ state.op = "none"
    /\ \E kind \in BiasKinds : \E b \in BiasValues(kind) :
          state' = [op |-> "encode", kind |-> kind, value |-> b, word |-> BiasGenerate(kind, b),
                    back |-> BiasParse(kind, BiasGenerate(kind, b))]
    /\ UNCHANGED <<dev, units, running, pc, unitsLeft, ring, cons, notify, ev, buf>>

(* A caller that parses a bias word and generates it again.                *)
BiasDecode ==
    /\ dev = "bias" /\ state.op = "none"
    /\ \E kind \in BiasKinds : \E w \in BiasWords(kind) :
          state' = [op |-> "decode", kind |-> kind, value |-> BiasParse(kind, w), word |-> w,
                    back |-> BiasGenerate(kind, BiasParse(kind, w))]
    /\ UNCHANGED <<dev, units, running, pc, unitsLeft, ring, cons, notify, ev, buf>>

(* ensureSpaceForEvents called on a packet for the numbers of events the  *)
(* decoders ask for: 1 (DAVIS) and 16 (MIPI group).                        *)
EnsureCounts == {1, 16}

ensureSpaceCall ==
    /\ dev = "ensure" /\ ~state.called
    /\ \E numEvents \in EnsureCounts, g \in BOOLEAN :
          LET r == ensureSpaceForEvents(state.packet, state.position, numEvents, g)
          IN state' = [state EXCEPT !.called = TRUE, !.numEvents = numEvents, !.grow = g,
                                    !.ok = r.ok, !.after = r.packet]
    /\ UNCHANGED <<dev, units, running, pc, unitsLeft, ring, cons, notify, ev, buf>>

(* The two samples of one pixel handed to apsUpdateFrame, each after the   *)
(* Column Start of its readout phase.  On the DAVIS640H with global        *)
(* shutter the signal read comes first.                                    *)
CdsFirstType(s) ==
    IF IS_DAVIS640H(s.info.chipID) /\ s.aps.globalShutter THEN "SIGNAL" ELSE "RESET"
CdsSamples == {0, 1, 383, 384, 385, 500, 1023, 1024, 1407, 1408, 2046, 2047}

CdsPixel(s) ==
    s.aps.frame.pixels[(IF IS_DAVIS640H(s.info.chipID) THEN 1 ELSE 0) * s.aps.roi.sizeX + 1]

cdsFirstPhase ==
    /\ dev = "cds" /\ state.phase = 0
    /\ \E data \in CdsSamples :
          state' = [state EXCEPT !.phase = 1, !.first = data,
                                 !.s = apsUpdateFrame(apsColumnStart(state.s, CdsFirstType(state.s)), data)]
    /\ UNCHANGED <<dev, units, running, pc, unitsLeft, ring, cons, notify, ev, buf>>

cdsSecondPhase ==
    /\ dev = "cds" /\ state.phase = 1
    /\ \E data \in CdsSamples :
          LET rt == IF CdsFirstType(state.s) = "RESET" THEN "SIGNAL" ELSE "RESET"
          IN state' = [state EXCEPT !.phase = 2, !.second = data,
                                    !.s = apsUpdateFrame(apsColumnStart(state.s, rt), data)]
    /\ UNCHANGED <<dev, units, running, pc, unitsLeft, ring, cons, notify, ev, buf>>

(* Column and Timestamp units handed to the MIPI decoder one after the     *)
(* other.  refSeen tells whether a Timestamp unit was decoded since the    *)
(* last Column unit, columns counts the Column units (history).            *)
MipiSubs == {0, 1, 500, 1023}
MipiRefs == 0..2

mipiTimeColumn ==
    /\ dev = "mipitime" /\ state.steps < MaxSteps
    /\ \E sub \in MipiSubs :
          state' = [state EXCEPT
                       !.s = mipiDecode(state.s, M_COLUMN(1, sub, 0), [t \in MipiPacketTypes |-> TRUE]).s,
                       !.steps = @ + 1, !.columns = @ + 1, !.refSeen = FALSE]
    /\ ev' = [kind |-> "unit", unit |-> 0]
    /\ UNCHANGED <<dev, units, running, pc, unitsLeft, ring, cons, notify, buf>>

mipiTimeReference ==
    /\ dev = "mipitime" /\ state.steps < MaxSteps
    /\ \E ref \in MipiRefs :
          state' = [state EXCEPT
                       !.s = mipiDecode(state.s, M_TIMESTAMP(ref), [t \in MipiPacketTypes |-> TRUE]).s,
                       !.steps = @ + 1, !.refSeen = TRUE]
    /\ ev' = [kind |-> "unit", unit |-> 1]
    /\ UNCHANGED <<dev, units, running, pc, unitsLeft, ring, cons, notify, buf>>

(* Another thread clears the running flag.                                 *)
StopRunning ==
    /\ running
    /\ running' = FALSE
    /\ UNCHANGED <<dev, units, pc, unitsLeft, state, ring, cons, notify, ev, buf>>

----------------------------------------------------------------------------
(* Specifications.                                                         *)

NoCons == [pc |-> "idle", container |-> NoContainer, lastSeq |-> 0, result |-> "none"]

(* A buffer too short for a unit and a buffer of MaxUnits units with a     *)
(* partial unit at its end.                                                *)
DefaultSizes(d) == {1, UnitWidth(d) * MaxUnits + 1}

InitSized(d, us, sizes) ==
    /\ dev = d
    /\ units = us
    /\ running = TRUE
    /\ pc = "idle"
    /\ unitsLeft = 0
    /\ ring = <<>>
    /\ cons = NoCons
    /\ notify = 0
    /\ ev = NoEv
    /\ buf = [sizes |-> sizes, n |-> 0, pos |-> 0]

InitCommon(d, us) == InitSized(d, us, DefaultSizes(d))

(* APS readout on the current decoder.                                     *)
ApsUnits ==
    {U_FRAME_START, U_COL_START_RESET, U_COL_START_SIGNAL, U_SAMPLE, U_COL_END, U_FRAME_END}

InitAps ==
    /\ InitCommon("davis", ApsUnits)
    /\ state = davisDataStart(0)

NextDecode == BeginTranslate \/ davisTranslate

SpecAps == InitAps /\ [][NextDecode]_vars

(* IMU bursts on the current decoder.                                      *)
ImuUnits == {U_IMU_START, U_IMU_END, U_IMU_DATA, U_IMU_SCALE_ALL}

InitImu ==
    /\ InitCommon("davis", ImuUnits)
    /\ state = davisDataStart(0)

SpecImu == InitImu /\ [][NextDecode]_vars

(* The legacy decoder with its ring buffer and its consumer.  wrapAdd     *)
(* starts at zero or two wrap units short of the 32-bit boundary.          *)
NearWrap == INT32_MAX - MaxWrapSteps * TS_WRAP_ADD * Data(U_WRAP) + 1

LegacyAlphabets ==
    {{U_TS_RESET, U_X_ADDR, U_EXT_INPUT},
     {U_TS_RESET, U_Y_ADDR, U_X_ADDR},
     {U_WRAP, U_X_ADDR, U_TIMESTAMP},
     {U_FRAME_START_NORST, U_COL_START_SIGNAL, U_COL_END, U_FRAME_END}}

InitLegacy ==
    /\ \E us \in LegacyAlphabets : InitCommon("legacy", us)
    /\ \E w \in {0, NearWrap} : state = davisCommonDataStart(w)

NextLegacy ==
    \/ BeginTranslate
    \/ legacyTranslate
    \/ legacyRetryPut
    \/ legacyNotifyIncrease
    \/ davisCommonDataGet
    \/ davisCommonDataGetNotify

SpecLegacy == InitLegacy /\ [][NextLegacy]_vars

(* The same with threads that keep running: the producer goes on spinning  *)
(* in retry_important and the consumer goes on calling davisCommonDataGet. *)
SpecLegacyFair ==
    /\ SpecLegacy
    /\ WF_vars(legacyRetryPut)
    /\ WF_vars(legacyNotifyIncrease)
    /\ WF_vars(davisCommonDataGet)
    /\ WF_vars(davisCommonDataGetNotify)

(* Shutdown: the current DAVIS decoder and the MIPI decoder while another *)
(* thread clears the running flag.                                         *)
DvsUnits == {U_TS_RESET, U_X_ADDR, U_EXT_INPUT}
MipiUnits == {M_COLUMN(1, 5, 1), M_SGROUP(0, 32768), M_TIMESTAMP(1)}

InitDecoder(d, us) ==
    /\ InitCommon(d, us)
    /\ state = CASE d = "davis" -> davisDataStart(0)
                 [] d = "mipi" -> mipiCx3DataStart
                 [] OTHER -> davisCommonDataStart(0)

InitShutdown == InitDecoder("davis", DvsUnits) \/ InitDecoder("mipi", MipiUnits)

NextShutdown ==
    \/ BeginTranslate
    \/ davisTranslate
    \/ davisRetryPut
    \/ mipiTranslate
    \/ StopRunning

SpecShutdown == InitShutdown /\ [][NextShutdown]_vars

(* Commits of the three decoders.                                          *)
InitCommit ==
    \/ \E us \in {ApsUnits, ImuUnits, DvsUnits} : InitDecoder("davis", us)
    \/ InitDecoder("mipi", MipiUnits)
    \/ InitLegacy

NextCommit ==
    \/ BeginTranslate
    \/ davisTranslate
    \/ davisRetryPut
    \/ mipiTranslate
    \/ legacyTranslate
    \/ legacyRetryPut
    \/ legacyNotifyIncrease
    \/ davisCommonDataGet
    \/ davisCommonDataGetNotify

SpecCommit == InitCommit /\ [][NextCommit]_vars

(* Forced commits in the middle of APS and IMU bursts (current decoder).   *)
ForcedAlphabets ==
    {{U_TS_RESET, U_FRAME_START, U_COL_START_SIGNAL, U_COL_END, U_SAMPLE, U_FRAME_END},
     {U_WRAP, U_FRAME_START, U_COL_END, U_SAMPLE, U_FRAME_END},
     {U_TS_RESET, U_IMU_START, U_IMU_SCALE_ALL, U_IMU_DATA, U_IMU_END},
     {U_WRAP, U_IMU_START, U_IMU_DATA, U_IMU_END}}

InitForced ==
    /\ \E us \in ForcedAlphabets : InitCommon("davis", us)
    /\ \E w \in {0, NearWrap} : state = davisDataStart(w)

NextForced == BeginTranslate \/ davisTranslate \/ davisRetryPut

SpecForced == InitForced /\ [][NextForced]_vars

(* USB buffers of every length up to MaxBufferUnits units and a partial   *)
(* unit, on the three decoders, with the thread that clears the flag.      *)
TruncateSizes(d) == 0..(UnitWidth(d) * MaxBufferUnits + 1)

InitTruncate ==
    \E d \in {"davis", "mipi", "legacy"} :
       /\ InitSized(d, IF d = "mipi" THEN MipiUnits ELSE DvsUnits, TruncateSizes(d))
       /\ state = CASE d = "davis" -> davisDataStart(0)
                    [] d = "mipi" -> mipiCx3DataStart
                    [] OTHER -> davisCommonDataStart(0)

NextTruncate == NextCommit \/ StopRunning

SpecTruncate == InitTruncate /\ [][NextTruncate]_vars

(* Polarity events written one by one into one packet of capacity 1 to    *)
(* MaxPacketSize, as the X address handler writes them; the log keeps the  *)
(* events handed to the handler.                                           *)
InitGrow ==
    /\ dev = "grow" /\ units = {} /\ running = TRUE /\ pc = "idle" /\ unitsLeft = 0
    /\ ring = <<>> /\ cons = NoCons /\ notify = 0
    /\ buf = [sizes |-> {}, n |-> 0, pos |-> 0]
    /\ ev = [kind |-> "insert", unit |-> <<>>]
    /\ \E capacity \in 1..MaxPacketSize :
          state = [currentPackets |->
                      [packet |-> [t \in {"polarity"} |-> PacketAllocate(1, capacity, 0)],
                       position |-> [t \in {"polarity"} |-> 0]],
                   log |-> EmptyLog]

InsertEvent ==
    /\ dev = "grow" /\ Len(ev.unit) < MaxInsert
    /\ \E x \in 0..1, pol \in 0..1, g \in BOOLEAN :
          LET e == PolarityEvent(Len(ev.unit), x, 0, pol)
          IN /\ state' = PutEvent(state, "polarity", e, [t \in {"polarity"} |-> g])
             /\ ev' = [ev EXCEPT !.unit = Append(@, e)]
    /\ UNCHANGED <<dev, units, running, pc, unitsLeft, ring, cons, notify, buf>>

SpecGrow == InitGrow /\ [][InsertEvent]_vars

(* Address units on the current decoder, two units to a buffer: the units *)
(* 0x1001 (Y address 1) and 0x3002 (X address 2, ON), and the units 0x0001  *)
(* and 0x8002.                                                             *)
InitPolarity ==
    /\ InitSized("davis", {U_Y_ADDR, U_X2_ON, U_TS_RESET, U_TIMESTAMP_2}, {4})
    /\ state = davisDataStart(0)

SpecPolarity == InitPolarity /\ [][NextForced]_vars

(* APS readout on both DAVIS decoders with markers lost or repeated and,   *)
(* on the current decoder, ROI updates reporting a window past the sensor. *)
PixelAlphabets(d) ==
    IF d = "davis"
    THEN {ApsUnits, {U_ROI_END_0, U_ROI_END_1, U_FRAME_START, U_SAMPLE}}
    ELSE {{U_FRAME_START_NORST, U_COL_START_SIGNAL, U_SAMPLE, U_COL_END, U_FRAME_END}}

InitPixels ==
    \E d \in {"davis", "legacy"} : \E us \in PixelAlphabets(d) : InitDecoder(d, us)

NextPixels ==
    \/ BeginTranslate
    \/ davisTranslate
    \/ legacyTranslate
    \/ legacyNotifyIncrease

SpecPixels == InitPixels /\ [][NextPixels]_vars

(* The legacy decoder with a consumer whose calls may find the ring buffer *)
(* empty, while the blocking setting is switched on and off.               *)
InitGet ==
    /\ InitCommon("legacy", DvsUnits)
    /\ state = davisCommonDataStart(0)

NextGet ==
    \/ NextLegacy
    \/ davisCommonDataGetEmpty
    \/ davisCommonDataGetNoData
    \/ SetDataExchangeBlocking

SpecGet == InitGet /\ [][NextGet]_vars

(* The legacy decoder, its consumer and davisCommonDataStop.                *)
NextStop ==
    \/ NextLegacy
    \/ davisCommonDataStopJoin
    \/ davisCommonDataStopGet
    \/ davisCommonDataStopNotify
    \/ davisCommonDataStopFree

SpecStop == InitLegacy /\ [][NextStop]_vars

(* davisCommonDataStop called at any moment.  The acquisition thread keeps *)
(* running (weak fairness of its steps) and pthread_join returns when the  *)
(* thread is out of the translator again and again (strong fairness).      *)
NextStopAnywhere ==
    \/ NextLegacy
    \/ davisCommonDataStopClear
    \/ davisCommonDataStopJoined
    \/ davisCommonDataStopGet
    \/ davisCommonDataStopNotify
    \/ davisCommonDataStopFree

InitStopAnywhere ==
    /\ InitCommon("legacy", {U_TS_RESET, U_X_ADDR})
    /\ state = davisCommonDataStart(0)

SpecStopAnywhere ==
    /\ InitStopAnywhere /\ [][NextStopAnywhere]_vars
    /\ WF_vars(legacyTranslate)
    /\ WF_vars(legacyRetryPut)
    /\ WF_vars(legacyNotifyIncrease)
    /\ SF_vars(davisCommonDataStopJoined)
    /\ WF_vars(davisCommonDataStopGet)
    /\ WF_vars(davisCommonDataStopNotify)
    /\ WF_vars(davisCommonDataStopFree)

(* The data_start call of either DAVIS driver with one failing step.       *)
InitStart ==
    /\ dev = "start" /\ units = {} /\ running = FALSE /\ pc = "idle" /\ unitsLeft = 0
    /\ ring = <<>> /\ cons = NoCons /\ notify = 0
    /\ buf = [sizes |-> {}, n |-> 0, pos |-> 0]
    /\ ev = NoEv
    /\ \E decoder \in {"davis", "legacy"} :
          \E fail \in {"none"} \cup {StartSteps(decoder)[i] : i \in DOMAIN StartSteps(decoder)} :
             state = [decoder |-> decoder, fail |-> fail, i |-> 1, pc |-> "step",
                      held |-> {}, started |-> FALSE, result |-> FALSE]

NextStart == dataStartStep \/ dataStartFreeAll

SpecStart == InitStart /\ [][NextStart]_vars

(* Data stop on both DAVIS drivers.                                        *)
InitTeardown == InitLegacy \/ InitDecoder("davis", DvsUnits)

NextTeardown ==
    \/ NextStop
    \/ davisTranslate
    \/ davisRetryPut
    \/ davisDataStop

SpecTeardown == InitTeardown /\ [][NextTeardown]_vars

(* Timestamp wraps on the legacy decoder, with a wrap that passes the      *)
(* 32-bit boundary by one wrap unit.                                       *)
InitWrap ==
    /\ InitCommon("legacy", {U_WRAP, U_WRAP_ODD, U_X_ADDR, U_TIMESTAMP})
    /\ \E w \in {0, NearWrap} : state = davisCommonDataStart(w)

(* Within MaxSteps units the forced commit of the wrap never finds the     *)
(* ring buffer full, so the producer never enters retry_important here.    *)
NextWrap ==
    \/ BeginTranslate
    \/ legacyTranslate
    \/ legacyNotifyIncrease
    \/ davisCommonDataGet
    \/ davisCommonDataGetNotify

SpecWrap == InitWrap /\ [][NextWrap]_vars

(* Timestamp resets on the legacy decoder after timestamps and wraps.      *)
InitReset ==
    /\ InitCommon("legacy", {U_WRAP, U_TS_RESET, U_X_ADDR, U_TIMESTAMP})
    /\ \E w \in {0, NearWrap} : state = davisCommonDataStart(w)

SpecReset == InitReset /\ [][NextLegacy]_vars

(* The timestamps of the legacy decoder: the smallest and the largest      *)
(* timestamp unit, wraps by 1, 2048 and 4095 steps and resets, from        *)
(* wrapAdd 0, two wrap steps and two single steps below the wrap-around.   *)
RangeUnits == {32768, 65535, Unit(7, 1), U_WRAP, Unit(7, 4095), U_TS_RESET}
LastWrapAdd == INT32_MAX - 2 * TS_WRAP_ADD + 1

InitRange ==
    /\ InitCommon("legacy", RangeUnits)
    /\ \E w \in {0, NearWrap, LastWrapAdd} : state = davisCommonDataStart(w)

SpecRange == InitRange /\ [][NextLegacy]_vars

(* DVS address units inside and outside the sensor (3 columns, 2 rows) on  *)
(* the current decoder, in both orientations.                              *)
AddressUnits ==
    {Unit(1, 0), U_Y_ADDR, Unit(1, 2), Unit(2, 2), U_X_ADDR, U_X2_ON, Unit(2, 3), U_TIMESTAMP}

InitAddress ==
    /\ InitCommon("davis", AddressUnits)
    /\ \E inv \in BOOLEAN : state = [davisDataStart(0) EXCEPT !.dvs.invertXY = inv]

SpecAddress == InitAddress /\ [][NextDecode]_vars

(* The current DAVIS decoder and the MIPI decoder with packets that fill   *)
(* up and a caerEventPacketGrow that can fail.                             *)
GrowFailSizes(d) == {UnitWidth(d) * n : n \in 1..MaxBufferUnits}

InitGrowFail ==
    \/ InitSized("davis", DvsUnits, GrowFailSizes("davis")) /\ state = davisDataStart(0)
    \/ InitSized("mipi", MipiUnits, GrowFailSizes("mipi")) /\ state = mipiCx3DataStart

NextGrowFail == BeginTranslate \/ davisTranslate \/ davisRetryPut \/ mipiTranslate

SpecGrowFail == InitGrowFail /\ [][NextGrowFail]_vars

(* One pixel sampled twice, on a rolling or global shutter frame of a      *)
(* DAVIS346 or a DAVIS640H, with a frame of one column and two rows.       *)
InitCDS ==
    /\ dev = "cds" /\ units = {} /\ running = TRUE /\ pc = "idle" /\ unitsLeft = 0
    /\ ring = <<>> /\ cons = NoCons /\ notify = 0
    /\ buf = [sizes |-> {}, n |-> 0, pos |-> 0]
    /\ ev = NoEv
    /\ \E chip \in {"DAVIS346", "DAVIS640H"}, gs \in BOOLEAN :
          state = [phase |-> 0, first |-> 0, second |-> 0,
                   s |-> [davisDataStart(0) EXCEPT !.info.chipID = chip,
                                                   !.aps.ignoreEvents = FALSE,
                                                   !.aps.globalShutter = gs,
                                                   !.aps.roi.sizeX = 1, !.aps.roi.sizeY = 2,
                                                   !.aps.expectedCountX = 1,
                                                   !.aps.expectedCountY = 2,
                                                   !.aps.frame.pixels = <<0, 0>>]]

NextCDS == cdsFirstPhase \/ cdsSecondPhase

SpecCDS == InitCDS /\ [][NextCDS]_vars

(* APS readout of a DAVIS346 and of a DAVIS640H with samples that arrive   *)
(* after the last row of a column or after the last column.                *)
SampleUnits == {U_FRAME_START, U_COL_START_SIGNAL, U_SAMPLE, U_COL_END}

InitSample ==
    /\ InitCommon("davis", SampleUnits)
    /\ \E chip \in {"DAVIS346", "DAVIS640H"} :
          state = [davisDataStart(0) EXCEPT !.info.chipID = chip]

SpecSample == InitSample /\ [][NextDecode]_vars

(* APS frames with exposure markers and a timestamp that moves once, and   *)
(* IMU bursts, on the current decoder: bursts are abandoned and restarted  *)
(* at any point.                                                           *)
ExposureUnits ==
    {U_TIMESTAMP, U_FRAME_START, Unit(0, 14), Unit(0, 15),
     U_COL_START_SIGNAL, U_COL_END, U_FRAME_END}

InitMarkers ==
    /\ \E us \in {ExposureUnits, ImuUnits} : InitCommon("davis", us)
    /\ state = davisDataStart(0)

SpecMarkers == InitMarkers /\ [][NextDecode]_vars

(* Group units of the MIPI decoder: one to sixteen pixels of the first,    *)
(* a middle and the last group, before and after Column units, with a      *)
(* caerEventPacketGrow that can fail.                                      *)
GroupUnits ==
    {M_COLUMN(1, 5, 0), M_COLUMN(2, 5, 0), M_SGROUP(0, 32768), M_SGROUP(3, 32769),
     M_SGROUP(63, 384), M_SGROUP(1, 65535), M_SGROUP(2, 0)}

InitGroup == InitSized("mipi", GroupUnits, GrowFailSizes("mipi")) /\ state = mipiCx3DataStart

NextGroup == BeginTranslate \/ mipiTranslate

SpecGroup == InitGroup /\ [][NextGroup]_vars

(* The timestamp handling of the MIPI decoder on every sequence of up to   *)
(* MaxSteps Column and Timestamp units.                                    *)
InitMipiTime ==
    /\ dev = "mipitime" /\ units = {} /\ running = TRUE /\ pc = "idle" /\ unitsLeft = 0
    /\ ring = <<>> /\ cons = NoCons /\ notify = 0
    /\ buf = [sizes |-> {}, n |-> 0, pos |-> 0]
    /\ ev = NoEv
    /\ state = [s |-> mipiCx3DataStart, steps |-> 0, columns |-> 0, refSeen |-> FALSE]

NextMipiTime == mipiTimeColumn \/ mipiTimeReference

SpecMipiTime == InitMipiTime /\ [][NextMipiTime]_vars

(* ensureSpaceForEvents on every packet of 1 to MaxCapacity events and     *)
(* every write position inside it or at its end.                           *)
InitEnsure ==
    /\ dev = "ensure" /\ units = {} /\ running = FALSE /\ pc = "idle" /\ unitsLeft = 0
    /\ ring = <<>> /\ cons = NoCons /\ notify = 0
    /\ buf = [sizes |-> {}, n |-> 0, pos |-> 0]
    /\ ev = NoEv
    /\ \E capacity \in 1..MaxCapacity : \E position \in 0..capacity :
          state = [packet |-> PacketAllocate(1, capacity, 0), position |-> position,
                   called |-> FALSE, numEvents |-> 0, grow |-> FALSE, ok |-> FALSE,
                   after |-> PacketAllocate(1, capacity, 0)]

SpecEnsure == InitEnsure /\ [][ensureSpaceCall]_vars

(* The bias encoders applied to every value and word of their ranges.      *)
InitBias ==
    /\ dev = "bias" /\ units = {} /\ running = FALSE /\ pc = "idle" /\ unitsLeft = 0
    /\ ring = <<>> /\ cons = NoCons /\ notify = 0
    /\ buf = [sizes |-> {}, n |-> 0, pos |-> 0]
    /\ ev = NoEv
    /\ state = [op |-> "none", kind |-> "none", value |-> 0, word |-> 0, back |-> 0]

NextBias == BiasEncode \/ BiasDecode

SpecBias == InitBias /\ [][NextBias]_vars

----------------------------------------------------------------------------
(* Properties.                                                             *)

(* The step is a loop iteration of a translator that decodes event.        *)
StepOf(event) ==
    pc = "loop" /\ unitsLeft' = unitsLeft - 1 /\ ev'.kind = "unit" /\ ev'.unit = event
ColumnsComplete == \A i \in ReadoutTypes : state.aps.countX[i] = state.aps.expectedCountX

(* C1 (as amended): at an APS Frame End unit decoded while APS events are  *)
(* not ignored, a FrameEvent is appended to the frame packet if and only   *)
(* if both countX[RESET] and countX[SIGNAL] equal expectedCountX and       *)
(* making room in the frame packet did not fail.                           *)
C1_FrameCompleteness ==
    [][StepOf(U_FRAME_END) /\ ~state.aps.ignoreEvents =>
          (state'.log.appended["frame"] = 1
              <=> ColumnsComplete /\ "frame" \notin state'.log.refused)]_vars

(* C1 as stated: the column counts alone decide the emission.              *)
C1_AsStated ==
    [][StepOf(U_FRAME_END) /\ ~state.aps.ignoreEvents =>
          (state'.log.appended["frame"] = 1 <=> ColumnsComplete)]_vars

C1_Witness ==
    /\ ev.kind = "unit" /\ ev.unit = U_FRAME_END
    /\ state.log.appended["frame"] = 1
    /\ state.aps.countX["SIGNAL"] = state.aps.expectedCountX

(* C2 (as amended): at an IMU End unit decoded while IMU events are not    *)
(* ignored, an IMU6Event is appended to the IMU6 packet if and only if the *)
(* step counter imu.count equals IMU_TOTAL_COUNT and making room in the    *)
(* IMU6 packet did not fail; the step counter is not the number of data    *)
(* fields consumed since the IMU Start.                                    *)
C2_ImuCompleteness ==
    [][StepOf(U_IMU_END) /\ ~state.imu.ignoreEvents =>
          (state'.log.appended["imu6"] = 1
              <=> state.imu.count = IMU_TOTAL_COUNT /\ "imu6" \notin state'.log.refused)]_vars

(* C2 as stated: exactly IMU_TOTAL_COUNT data fields since the IMU Start.  *)
C2_AsStated ==
    [][StepOf(U_IMU_END) /\ ~state.imu.ignoreEvents =>
          (state'.log.appended["imu6"] = 1 <=> state.imu.fields = IMU_TOTAL_COUNT)]_vars

C2_Witness ==
    /\ ev.kind = "unit" /\ ev.unit = U_IMU_END
    /\ state.log.appended["imu6"] = 1
    /\ state.imu.fields = IMU_TOTAL_COUNT

(* The Container the last legacy iteration sealed: the newest one of the   *)
(* ring buffer or, while the put is retried, the one the producer holds.   *)
LastSealed(s, rb) ==
    IF s.log.sealed > 0 THEN rb[Len(rb)] ELSE s.container.currentPacketContainer

EventsOf(c, t) == c.packets[t].events
AllEventsOf(c) == UNION {{EventsOf(c, t)[i] : i \in DOMAIN EventsOf(c, t)} : t \in PacketTypes}
ResetEventsOf(c) ==
    {i \in DOMAIN EventsOf(c, "special") : EventsOf(c, "special")[i].type = "TIMESTAMP_RESET"}

(* C3 (as amended): in the legacy decoder a timestamp reset unit appends a *)
(* TIMESTAMP_RESET event to the open Special packet and forces a commit at *)
(* once: the Container sealed holds every non-empty open packet, the       *)
(* events decoded before the reset included, its only TIMESTAMP_RESET      *)
(* event is the last event of its Special packet and comes from this unit, *)
(* and every open packet is empty afterwards, so that the units that       *)
(* follow land in a later Container.                                       *)
C3_ResetSeparation ==
    [][dev = "legacy" /\ StepOf(U_TS_RESET) =>
          LET c == LastSealed(state', ring')
              sp == EventsOf(c, "special")
          IN /\ state'.log.commit /\ state'.log.forced
             /\ ResetEventsOf(c) = {Len(sp)}
             /\ Len(sp) > 0 /\ sp[Len(sp)].n = state'.unitNo
             /\ \A e \in AllEventsOf(c) : e.n <= state'.unitNo
             /\ \A t \in PacketTypes : state.currentPackets.position[t] > 0 => c.packets[t].id # 0
             /\ \A t \in PacketTypes : state'.currentPackets.position[t] = 0]_vars

(* C3 as stated: the Container sealed at the reset holds a Special packet  *)
(* with the one TIMESTAMP_RESET event and nothing else.                    *)
C3_AsStated ==
    [][dev = "legacy" /\ StepOf(U_TS_RESET) =>
          LET c == LastSealed(state', ring')
          IN /\ \A t \in PacketTypes \ {"special"} : c.packets[t].id = 0
             /\ Len(EventsOf(c, "special")) = 1
             /\ EventsOf(c, "special")[1].type = "TIMESTAMP_RESET"]_vars

C3_Witness ==
    /\ dev = "legacy" /\ ev.kind = "unit" /\ ev.unit = U_TS_RESET
    /\ pc = "retry"
    /\ LET c == state.container.currentPacketContainer
       IN /\ c.packets["polarity"].id # 0
          /\ ResetEventsOf(c) = {Len(EventsOf(c, "special"))}

(* C5: in the legacy decoder a Container sealed by a forced commit is      *)
(* never dropped: when ringBufferPut fails the producer stays in           *)
(* retry_important with the same Container, unchanged, until the put       *)
(* succeeds and the Container enters the ring buffer as it was sealed.     *)
C5_ForcedNeverDropped ==
    [][dev = "legacy" =>
          /\ pc = "loop" /\ unitsLeft' = unitsLeft - 1 /\ state'.log.forced =>
                /\ state'.log.dropped = 0
                /\ \/ state'.log.sealed = 1 /\ Len(ring') = Len(ring) + 1 /\ pc' = "notify"
                   \/ /\ Len(ring) = RingSize /\ ring' = ring /\ pc' = "retry"
                      /\ state'.container.currentPacketContainer.packets["special"].id # 0
          /\ pc' = "retry" => state'.log.forced
          /\ pc = "retry" =>
                \/ /\ pc' = "retry"
                   /\ state'.container.currentPacketContainer = state.container.currentPacketContainer
                \/ /\ pc' = "notify"
                   /\ ring' = Append(ring, state.container.currentPacketContainer)]_vars

C5_Witness ==
    /\ dev = "legacy" /\ ev.kind = "retry" /\ pc = "notify"
    /\ state.log.forced /\ state.log.sealed = 1 /\ state.log.dropped = 0

(* C6: with a consumer that keeps calling davisCommonDataGet, a forced     *)
(* Container the producer is retrying to put into the full ring buffer is  *)
(* eventually put, and the producer goes on with its loop.                 *)
C6_ForcedEventuallyInserted ==
    \A k \in 1..MaxSteps :
       (dev = "legacy" /\ pc = "retry" /\ state.container.currentPacketContainer.seq = k)
           ~> (pc \in {"loop", "idle"} /\ state.container.lastPut >= k)

C6_Witness ==
    /\ dev = "legacy" /\ ev.kind = "retry" /\ pc \in {"loop", "idle"}
    /\ state.container.lastPut = state.sealed

(* C7: the Containers the consumer gets are Containers the producer sealed *)
(* in the order it sealed them (some may be missing, none is repeated or   *)
(* overtaken), and events keep the order of the units that produced them:  *)
(* within a packet, and from every Container to the ones sealed after it   *)
(* and to the open packets.                                                *)
Chain ==
    (IF cons.container.alloc THEN <<cons.container>> ELSE <<>>) \o ring
        \o (IF pc = "retry" THEN <<state.container.currentPacketContainer>> ELSE <<>>)

OpenEvents ==
    UNION {{state.currentPackets.packet[t].events[i] :
               i \in DOMAIN state.currentPackets.packet[t].events} : t \in PacketTypes}

C7_Ordering ==
    dev = "legacy" =>
       /\ \A i, j \in DOMAIN Chain : i < j =>
             /\ Chain[i].seq < Chain[j].seq
             /\ \A e1 \in AllEventsOf(Chain[i]), e2 \in AllEventsOf(Chain[j]) : e1.n < e2.n
       /\ \A i \in DOMAIN Chain :
             /\ Chain[i].seq \in 1..state.sealed
             /\ \A t \in PacketTypes : \A a, b \in DOMAIN EventsOf(Chain[i], t) :
                   a < b => EventsOf(Chain[i], t)[a].n < EventsOf(Chain[i], t)[b].n
             /\ \A e1 \in AllEventsOf(Chain[i]), e2 \in OpenEvents : e1.n < e2.n
       /\ cons.container.alloc => cons.lastSeq < cons.container.seq

C7_Witness ==
    /\ dev = "legacy"
    /\ cons.container.alloc /\ cons.lastSeq > 0
    /\ Len(ring) > 0
    /\ \E t \in PacketTypes : Len(EventsOf(cons.container, t)) > 1

(* C4 (as amended): a decode invocation of the current DAVIS decoder or of *)
(* the MIPI decoder that starts once the running flag is cleared returns   *)
(* at its top check and changes nothing: no event is appended and no       *)
(* Container is sealed.  (An invocation that passed the check before the   *)
(* flag was cleared goes on with its buffer.)                              *)
C4_NoWorkAfterStop ==
    [][~running /\ pc = "idle" =>
          state' = state /\ pc' = "idle" /\ unitsLeft' = unitsLeft]_vars

(* C4 as stated: once the flag is cleared no step appends an event or puts *)
(* a Container, whatever is in flight.                                     *)
Emission ==
    /\ pc \in {"loop", "retry"} /\ state' # state
    /\ \/ \E t \in DOMAIN state'.currentPackets.packet : state'.log.appended[t] > 0
       \/ state'.log.sealed > 0

C4_AsStated == [][~running => ~Emission]_vars

C4_Witness == ~running /\ pc = "idle" /\ ev.kind = "noop"

(* C8: after a commit attached a packet, the Manager's reference to it is  *)
(* null and its write position is 0, so that no later commit can attach    *)
(* the instance again; a packet instance is held by at most one of the     *)
(* Manager, the Container being filled or delivered, the ring buffer and   *)
(* the consumer, and by one slot of it.                                    *)
DistinctSlots(ps) == \A t1, t2 \in DOMAIN ps : t1 # t2 /\ ps[t1].id # 0 => ps[t1].id # ps[t2].id
PendingIds == IF dev = "legacy" THEN {} ELSE ContainerIds(state.container.pending)

Holders ==
    <<ManagerIds(state), ContainerIds(state.container.currentPacketContainer), PendingIds>>
        \o [i \in DOMAIN ring |-> ContainerIds(ring[i])] \o <<ContainerIds(cons.container)>>

C8_NoDoubleOwnership ==
    /\ \A t \in state.log.attached :
          state.currentPackets.packet[t] = NULL /\ state.currentPackets.position[t] = 0
    /\ state.log.attachedIds \cap ManagerIds(state) = {}
    /\ \A i, j \in DOMAIN Holders : i # j => Holders[i] \cap Holders[j] = {}
    /\ DistinctSlots(state.currentPackets.packet)
    /\ DistinctSlots(state.container.currentPacketContainer.packets)
    /\ \A i \in DOMAIN ring : DistinctSlots(ring[i].packets)

C8_Witness ==
    /\ dev = "legacy" /\ state.log.attached # {}
    /\ Len(ring) = RingSize /\ cons.container.alloc
    /\ ManagerIds(state) # {}

(* C9: at every commit of the DAVIS decoders a packet type is attached to  *)
(* the Container if and only if its write position is above zero at that   *)
(* moment; a packet without events is not attached and is still the        *)
(* Manager's open packet, empty, after the commit.                         *)
C9_CommitStep ==
    dev \in {"davis", "legacy"} /\ pc = "loop" /\ unitsLeft' = unitsLeft - 1
          /\ ev'.kind = "unit" /\ state'.log.commit =>
          \A t \in PacketTypes :
             /\ t \in state'.log.attached <=> state'.log.atCommit[t] > 0
             /\ state'.log.atCommit[t] > 0 => state'.currentPackets.packet[t] = NULL
             /\ state'.log.atCommit[t] = 0 =>
                   /\ state'.currentPackets.packet[t].id # 0
                   /\ state'.currentPackets.packet[t].events = <<>>
                   /\ state'.currentPackets.position[t] = 0
                   /\ state.currentPackets.packet[t].id # 0 =>
                         state'.currentPackets.packet[t].id = state.currentPackets.packet[t].id

C9_AttachIffNonEmpty == [][C9_CommitStep]_vars

C9_Witness ==
    /\ dev \in {"davis", "legacy"} /\ ev.kind = "unit" /\ state.log.commit
    /\ state.log.attached # {} /\ state.log.attached # PacketTypes
    /\ \E t \in PacketTypes : state.log.atCommit[t] = 0 /\ state.currentPackets.packet[t].id # 0

(* C10: in the current decoder, after a forced commit (timestamp reset or  *)
(* big wrap) and until a Frame Start unit is decoded, no FrameEvent is     *)
(* appended and no APS sample or column marker changes the APS             *)
(* accumulator; until an IMU Start unit is decoded, no IMU6Event is        *)
(* appended and no IMU data byte changes the IMU accumulator.              *)
ApsMarkers == {U_SAMPLE, U_COL_START_RESET, U_COL_START_SIGNAL, U_COL_END, U_FRAME_END}

C10_UnitStep ==
    dev = "davis" /\ pc = "loop" /\ unitsLeft' = unitsLeft - 1 /\ ev'.kind = "unit" =>
          /\ state.forcedSince.aps /\ ev'.unit \notin {Unit(0, 8), Unit(0, 9)} =>
                /\ state'.log.appended["frame"] = 0
                /\ ev'.unit \in ApsMarkers =>
                      state'.aps = state.aps /\ state'.log.appended["special"] = 0
          /\ state.forcedSince.imu /\ ev'.unit # U_IMU_START =>
                /\ state'.log.appended["imu6"] = 0
                /\ IsImuData(ev'.unit) \/ ev'.unit = U_IMU_END => state'.imu = state.imu

C10_ForcedCommitIgnores == [][C10_UnitStep]_vars

C10_Witness ==
    /\ dev = "davis" /\ ev.kind = "unit" /\ ev.unit = U_FRAME_END
    /\ state.forcedSince.aps
    /\ \A i \in ReadoutTypes : state.aps.countX[i] = state.aps.expectedCountX
    /\ state.log.appended["frame"] = 0

(* C11 (as amended): in the legacy decoder, over runs of units without a   *)
(* timestamp reset, wrapOverflow never decreases.  A timestamp-wrap unit   *)
(* (code 7) increments wrapOverflow and forces a commit exactly when       *)
(* wrapAdd plus its jump passes INT32_MAX: that commit seals one Container *)
(* whose Special packet ends with the TIMESTAMP_WRAP event of this unit,   *)
(* and leaves every open packet empty.  A wrap unit below the boundary     *)
(* only advances wrapAdd: it appends nothing and forces no commit.         *)
WrapOverflows(s, event) == TS_WRAP_ADD * Data(event) > INT32_MAX - s.timestamps.wrapAdd

C11_WrapStep ==
    /\ dev = "legacy" /\ U_TS_RESET \notin units =>
          state'.timestamps.wrapOverflow >= state.timestamps.wrapOverflow
    /\ dev = "legacy" /\ StepOf(U_WRAP) =>
          IF WrapOverflows(state, U_WRAP)
          THEN LET sp == EventsOf(LastSealed(state', ring'), "special")
               IN /\ state'.timestamps.wrapOverflow = state.timestamps.wrapOverflow + 1
                  /\ state'.log.commit /\ state'.log.forced
                  /\ state'.sealed = state.sealed + 1
                  /\ Len(sp) > 0 /\ sp[Len(sp)].type = "TIMESTAMP_WRAP"
                  /\ sp[Len(sp)].n = state'.unitNo
                  /\ \A t \in PacketTypes : state'.currentPackets.position[t] = 0
          ELSE /\ state'.timestamps.wrapOverflow = state.timestamps.wrapOverflow
               /\ ~state'.log.commit
               /\ state'.sealed = state.sealed
               /\ \A t \in PacketTypes : state'.log.appended[t] = 0

C11_MonotonicEpochs == [][C11_WrapStep]_vars

(* C11 as stated: every timestamp-wrap unit forces a commit.               *)
C11_AsStated ==
    [][dev = "legacy" /\ StepOf(U_WRAP) => state'.log.commit /\ state'.log.forced]_vars

C11_Witness ==
    /\ dev = "legacy" /\ ev.kind = "unit" /\ ev.unit = U_WRAP
    /\ state.timestamps.wrapOverflow = 1 /\ state.log.forced
    /\ Len(ring) > 0

(* C12 (as amended): a decode invocation reads its units at the byte       *)
(* offsets 0, w, 2w, ... (w = 2 bytes in the DAVIS decoders, 4 in the MIPI  *)
(* decoder), each unit wholly below bytesSent, so that no byte at an index  *)
(* >= bytesSent is read and at most floor(bytesSent / w) units are          *)
(* decoded.  An invocation that enters its loop and does not return on a    *)
(* failed loop-top allocation decodes exactly floor(bytesSent / w) units;   *)
(* one that finds the running flag cleared (current DAVIS and MIPI          *)
(* decoders) decodes none.                                                  *)
DecodesUnit == pc = "loop" /\ ev'.kind = "unit" /\ unitsLeft' = unitsLeft - 1
Returns == pc # "idle" /\ pc' = "idle"
DecodedBytes == IF DecodesUnit THEN buf.pos + UnitBytes ELSE buf.pos

C12_Step ==
    /\ DecodesUnit => buf.pos % UnitBytes = 0 /\ buf.pos + UnitBytes - 1 < buf.n
    /\ Returns /\ ev'.kind # "allocfail" => DecodedBytes = UnitBytes * (buf.n \div UnitBytes)
    /\ pc = "idle" /\ ev'.kind = "begin" /\ ev' # ev =>
          /\ pc' = "loop" <=> ev'.unit \div UnitBytes > 0
          /\ pc' = "loop" => buf'.n = ev'.unit /\ buf'.pos = 0
    /\ pc = "idle" /\ ev'.kind = "noop" => pc' = "idle" /\ state' = state

C12_TruncationSafety == [][C12_Step]_vars

(* C12 as stated: every invocation decodes exactly floor(bytesSent / w)    *)
(* units.                                                                  *)
C12_AsStated == [][Returns => DecodedBytes = UnitBytes * (buf.n \div UnitBytes)]_vars

C12_Witness ==
    /\ dev = "mipi" /\ pc = "loop" /\ buf.n = 4 * MaxBufferUnits + 1
    /\ buf.pos = 4 * (MaxBufferUnits - 1) /\ ev.kind = "unit"

(* C13: N events written one per ensureSpaceForEvents call into a packet   *)
(* of initial capacity C >= 1, every grow succeeding, leave a packet of    *)
(* capacity >= N that holds exactly the N events in the order they were    *)
(* written, with the write position at N (N > C included).                 *)
C13_PacketGrowth ==
    dev = "grow" /\ state.log.refused = {} =>
        LET packet == state.currentPackets.packet["polarity"]
        IN /\ packet.events = ev.unit
           /\ state.currentPackets.position["polarity"] = Len(ev.unit)
           /\ packet.capacity >= Len(ev.unit)

C13_Witness ==
    /\ dev = "grow" /\ state.log.refused = {}
    /\ Len(ev.unit) = MaxInsert
    /\ state.currentPackets.packet["polarity"].capacity = 8
    /\ state.currentPackets.packet["polarity"].events[MaxInsert].timestamp = MaxInsert - 1

(* C14 (as amended): on the current decoder with default orientation, the *)
(* unit 0x1001 (code 1: Y address 1) followed by the unit 0x3002 (code 3:  *)
(* X address 2, ON) appends exactly one PolarityEvent, with x = 2, y = 1   *)
(* and polarity ON, and no other event.  (0x0001 is a timestamp reset and  *)
(* 0x8002 a timestamp unit: they append no PolarityEvent.)                 *)
After(first, second) == ev.kind = "unit" /\ ev.unit = first /\ StepOf(second)

C14_Step ==
    dev = "davis" /\ After(U_Y_ADDR, U_X2_ON) /\ "polarity" \notin state'.log.refused =>
        /\ state'.log.appended = [t \in PacketTypes |-> IF t = "polarity" THEN 1 ELSE 0]
        /\ "polarity" \notin state'.log.attached =>
              LET events == state'.currentPackets.packet["polarity"].events
              IN /\ Len(events) = Len(state.currentPackets.packet["polarity"].events) + 1
                 /\ events[Len(events)] = PolarityEvent(state.timestamps.current, 2, 1, 1)

C14_PolarityExample == [][C14_Step]_vars

(* C14 as stated: the units 0x0001 and 0x8002 append one PolarityEvent.    *)
C14_AsStated ==
    [][dev = "davis" /\ After(U_TS_RESET, U_TIMESTAMP_2) =>
          state'.log.appended["polarity"] = 1]_vars

C14_Witness ==
    /\ dev = "davis" /\ ev.kind = "unit" /\ ev.unit = U_X2_ON /\ state.dvs.lastY = 1
    /\ state.currentPackets.packet["polarity"].events = <<PolarityEvent(0, 2, 1, 1)>>
    /\ state.currentPackets.packet["special"].events = <<>>
    /\ state.log.sealed = 0 /\ ~state.log.commit

(* C15: in the current decoder a frame whose units since Frame Start were  *)
(* all of the Reset phase (columns and samples, a Column End with a wrong   *)
(* row count among them) appends no FrameEvent at Frame End, and the next   *)
(* Frame Start sets every column and row counter to 0 and the readout      *)
(* phase to RESET.                                                          *)
ResetPhaseOnly(s) ==
    /\ ~s.aps.ignoreEvents /\ s.aps.currentReadoutType = "RESET"
    /\ s.aps.countX["SIGNAL"] = 0 /\ s.aps.countX["RESET"] > 0

C15_Step ==
    /\ dev = "davis" /\ StepOf(U_FRAME_END) /\ ResetPhaseOnly(state) =>
          state'.log.appended["frame"] = 0
    /\ dev = "davis" /\ StepOf(U_FRAME_START) =>
          /\ \A i \in ReadoutTypes : state'.aps.countX[i] = 0 /\ state'.aps.countY[i] = 0
          /\ state'.aps.currentReadoutType = "RESET"
          /\ ~state'.aps.ignoreEvents

C15_ResetOnlyFrame == [][C15_Step]_vars

C15_Witness ==
    /\ dev = "davis" /\ ev.kind = "unit" /\ ev.unit = U_FRAME_END
    /\ ResetPhaseOnly(state)
    /\ state.aps.countX["RESET"] = state.aps.expectedCountX + 1
    /\ state.aps.countY["RESET"] # state.aps.expectedCountY
    /\ state.currentPackets.packet["frame"].events = <<>> /\ state.log.sealed = 0

(* C16: every pixel access of the APS sample handler of either DAVIS       *)
(* decoder is at an index inside the allocated pixel buffer, and none goes *)
(* through a released pixel buffer, whatever units arrive.                 *)
PixelAccessInvalid ==
    \/ dev = "davis" /\ state.aps.frame.outOfRange
    \/ dev = "legacy" /\ state.aps.invalidWrite

C16_PixelSafety == ~PixelAccessInvalid

(* C17: davisCommonDataGet takes the oldest Container when the ring buffer *)
(* is non-empty; when it is empty the call returns NULL if blocking reads  *)
(* are disabled and tries again if they are enabled, so that with blocking *)
(* reads enabled it returns only with a Container; a Container leaves the  *)
(* ring buffer when it is taken and is newer than every Container returned *)
(* before; dataNotifyDecrease runs once per returned Container and at no   *)
(* other time.                                                             *)
GetTakes == cons.pc = "idle" /\ cons'.pc = "got"

GetFindsEmpty == cons.pc = "idle" /\ cons'.pc = "empty"

GetLeavesEmpty == cons.pc = "empty" /\ cons'.pc = "idle"

GetReturnsContainer == cons.pc = "got" /\ cons'.pc = "idle"

C17_Step ==
    /\ GetTakes => /\ ring # <<>>
                   /\ cons'.container = Head(ring)
                   /\ ring' = Tail(ring)
                   /\ cons.container.alloc => cons.container.seq < cons'.container.seq
                   /\ notify' = notify
    /\ GetFindsEmpty => ring = <<>> /\ notify' = notify
    /\ GetLeavesEmpty =>
           /\ cons'.result = (IF state.dataExchangeBlocking THEN "retry" ELSE "null")
           /\ cons'.container = cons.container
           /\ notify' = notify
    /\ GetReturnsContainer =>
           /\ cons'.result = "container"
           /\ cons'.container = cons.container
           /\ notify' = notify - 1
    /\ cons'.result # cons.result => GetLeavesEmpty \/ GetReturnsContainer
    /\ notify' < notify => GetReturnsContainer

C17_DataGet == [][C17_Step]_vars

C17_Witness ==
    /\ dev = "legacy" /\ cons.pc = "idle" /\ cons.result = "null"
    /\ cons.container.alloc /\ cons.lastSeq > 0
    /\ ring = <<>>

(* C18: in the legacy decoder a commit that is not forced and finds the    *)
(* ring buffer full drops the Container without waiting: the ring buffer   *)
(* and the notification count are unchanged, the four slots of the         *)
(* Container are NULL, the Manager's pointers to the packets that were     *)
(* attached are NULL with write position 0, no reference to a freed packet *)
(* is left anywhere the consumer could get it from, and the loop goes on   *)
(* with the same Container, which needs no new allocation.                 *)
LegacyDrop == dev = "legacy" /\ pc = "loop" /\ unitsLeft' = unitsLeft - 1 /\ state'.log.dropped > 0

C18_Step ==
    /\ LegacyDrop =>
           /\ ~state'.log.forced /\ state'.log.commit
           /\ Len(ring) = RingSize /\ ring' = ring /\ notify' = notify
           /\ pc' = AfterUnit(unitsLeft')
           /\ state'.container.currentPacketContainer.alloc
           /\ ~AllocNeeded(state', "container")
           /\ \A t \in PacketTypes : state'.container.currentPacketContainer.packets[t] = NULL
           /\ \A t \in state'.log.attached :
                  /\ state'.currentPackets.packet[t] = NULL
                  /\ state'.currentPackets.position[t] = 0
           /\ state'.log.attachedIds \cap
                  (ManagerIds(state') \cup RingIds(ring') \cup ContainerIds(cons'.container)) = {}
    /\ dev = "legacy" /\ pc = "loop" /\ unitsLeft' = unitsLeft - 1
          /\ state'.log.commit /\ ~state'.log.forced /\ Len(ring) = RingSize
          => state'.log.dropped = 1

C18_DropPolicy == [][C18_Step]_vars

C18_Witness ==
    /\ dev = "legacy" /\ ev.kind = "unit" /\ state.log.dropped = 1
    /\ state.log.attached # {}
    /\ Len(ring) = RingSize

(* C19: in the legacy data exchange dataNotifyIncrease is called once      *)
(* after each successful ringBufferPut and on no other path (not after a   *)
(* drop), dataNotifyDecrease once after each successful ringBufferGet, in  *)
(* davisCommonDataGet and in davisCommonDataStop; so whenever the producer *)
(* is not between a put and its notification and the user's thread is not *)
(* between a get and its notification, increases minus decreases equal the *)
(* number of Containers in the ring buffer.                                *)
ProducerInPut == pc = "notify"

ConsumerInGet == cons.pc \in {"got", "drain"}

Occupancy ==
    notify = Len(ring) - (IF ProducerInPut THEN 1 ELSE 0) + (IF ConsumerInGet THEN 1 ELSE 0)

C19_Step ==
    /\ notify' = notify + 1 <=> ProducerInPut /\ ~ProducerInPut'
    /\ notify' = notify - 1 <=> ConsumerInGet /\ ~ConsumerInGet'
    /\ notify' \in {notify - 1, notify, notify + 1}
    /\ Len(ring') = Len(ring) + 1 <=> ~ProducerInPut /\ ProducerInPut'
    /\ Len(ring') = Len(ring) - 1 <=> ~ConsumerInGet /\ ConsumerInGet'
    /\ pc = "loop" /\ unitsLeft' = unitsLeft - 1 /\ state'.log.dropped > 0 =>
           notify' = notify /\ ~ProducerInPut'

C19_Notifications ==
    /\ [](dev = "legacy" => Occupancy)
    /\ [](dev = "legacy" /\ ~ProducerInPut /\ ~ConsumerInGet => notify = Len(ring))
    /\ [][dev = "legacy" => C19_Step]_vars

C19_Witness ==
    /\ dev = "legacy" /\ pc = "joined" /\ cons.pc = "idle"
    /\ cons.container.alloc
    /\ notify = 1 /\ Len(ring) = 1
    /\ state.sealed > state.container.lastPut

(* C20: when an allocation step of davisDataStart or davisCommonDataStart  *)
(* fails, the call returns false, neither the USB transfers nor the data   *)
(* acquisition thread have been started, and nothing allocated earlier in  *)
(* the call is still held.                                                 *)
StartReturned == dev = "start" /\ state.pc = "done"

C20_StartFailure ==
    StartReturned /\ state.fail \in StartAllocations =>
        /\ state.result = FALSE
        /\ ~state.started
        /\ state.held = {}

(* C21: when a data stop has returned, the ring buffer is empty and every  *)
(* Container that was in it was taken out and notified with one            *)
(* dataNotifyDecrease each, so that increases and decreases balance; the   *)
(* Manager holds no packet and no Container, its four write positions are  *)
(* 0 and its private IMU6 event is zeroed.  The teardown runs only on an   *)
(* empty ring buffer, and nothing runs after it.                           *)
Stopped == pc = "stopped"

TornDown ==
    /\ ring = <<>>
    /\ notify = 0
    /\ \A t \in PacketTypes :
          /\ state.currentPackets.packet[t] = NULL
          /\ state.currentPackets.position[t] = 0
    /\ state.container.currentPacketContainer = NoContainer
    /\ state.imu.currentEvent = ZeroIMU6Event

C21_Step ==
    /\ ~Stopped /\ Stopped' => ring = <<>> /\ ring' = <<>> /\ notify' = notify
    /\ Stopped => UNCHANGED vars
    /\ pc = "joined" /\ Len(ring') < Len(ring) => cons'.pc = "drain" /\ Len(ring') = Len(ring) - 1
    /\ cons.pc = "drain" => notify' = notify - 1 /\ cons'.pc = "idle"

WrapUnits == {U_WRAP, U_WRAP_ODD}

WrapJump(event) == TS_WRAP_ADD * Data(event)

WrapRemainder(s, event) == WrapJump(event) - (INT32_MAX - s.timestamps.wrapAdd) - 1

WrapPasses(event) ==
    LET sp == EventsOf(LastSealed(state', ring'), "special")
    IN /\ state'.timestamps.wrapAdd = WrapRemainder(state, event)
       /\ state'.timestamps.current = state'.timestamps.wrapAdd
       /\ state'.timestamps.dvs = 0
       /\ state'.timestamps.wrapOverflow = state.timestamps.wrapOverflow + 1
       /\ state'.log.appended = [t \in PacketTypes |-> IF t = "special" THEN 1 ELSE 0]
       /\ Len(sp) > 0
       /\ sp[Len(sp)].type = "TIMESTAMP_WRAP" /\ sp[Len(sp)].timestamp = INT32_MAX
       /\ sp[Len(sp)].n = state'.unitNo
       /\ state'.log.commit /\ state'.log.forced

WrapStays(event) ==
    /\ state'.timestamps.wrapAdd = state.timestamps.wrapAdd + WrapJump(event)
    /\ state'.timestamps.current = state'.timestamps.wrapAdd
    /\ state'.timestamps.last = state.timestamps.current
    /\ state'.timestamps.wrapOverflow = state.timestamps.wrapOverflow
    /\ state'.log.appended = [t \in PacketTypes |-> 0]
    /\ ~state'.log.forced

C22_Step ==
    \A event \in WrapUnits :
       dev = "legacy" /\ StepOf(event) =>
          IF WrapOverflows(state, event)
          THEN WrapPasses(event) /\ state'.timestamps.last = 0
          ELSE WrapStays(event)

C22_ApplyWrap == [][C22_Step]_vars

(* C22 as stated: on a wrap that passes INT32_MAX, current and last are    *)
(* both the new base.                                                      *)
C22_AsStated ==
    [][\A event \in WrapUnits :
          dev = "legacy" /\ StepOf(event) /\ WrapOverflows(state, event) =>
             /\ WrapPasses(event)
             /\ state'.timestamps.last = state'.timestamps.wrapAdd]_vars

C22_Witness ==
    /\ dev = "legacy" /\ ev.kind = "unit" /\ ev.unit = U_WRAP_ODD
    /\ state.log.forced /\ state.timestamps.wrapOverflow = 1
    /\ state.timestamps.wrapAdd = TS_WRAP_ADD /\ state.timestamps.current = TS_WRAP_ADD
    /\ state.timestamps.last = 0

(* C23: a timestamp-reset unit decoded by the legacy decoder, whatever the *)
(* timestamps were, leaves wrapOverflow, wrapAdd, last, current and the    *)
(* DVS timestamp at 0, appends one special event and nothing else, that    *)
(* event being a TIMESTAMP_RESET, and forces a commit in the same step.    *)
TimestampsZero(s) ==
    s.timestamps = [wrapOverflow |-> 0, wrapAdd |-> 0, last |-> 0, current |-> 0, dvs |-> 0]

C23_Step ==
    dev = "legacy" /\ StepOf(U_TS_RESET) =>
        LET sp == EventsOf(LastSealed(state', ring'), "special")
        IN /\ TimestampsZero(state')
           /\ state'.log.appended = [t \in PacketTypes |-> IF t = "special" THEN 1 ELSE 0]
           /\ Len(sp) > 0
           /\ sp[Len(sp)].type = "TIMESTAMP_RESET" /\ sp[Len(sp)].n = state'.unitNo
           /\ Cardinality(ResetEventsOf(LastSealed(state', ring'))) = 1
           /\ state'.log.commit /\ state'.log.forced
           /\ state'.sealed = state.sealed + 1

C23_ApplyReset == [][C23_Step]_vars

C23_Witness ==
    /\ dev = "legacy" /\ ev.kind = "unit" /\ ev.unit = U_TS_RESET
    /\ TimestampsZero(state) /\ state.log.forced
    /\ state.sealed > 1
    /\ \E i \in DOMAIN ring :
          \E j \in DOMAIN EventsOf(ring[i], "special") :
             EventsOf(ring[i], "special")[j].type = "TIMESTAMP_WRAP"

(* C24: parsing the word generated from a VDAC, coarse-fine or shifted     *)
(* source bias whose fields lie within their bit widths gives the bias     *)
(* back; generating from the parse of a word gives the word back for the   *)
(* VDAC encoding (9 bits) and the coarse-fine encoding (15 bits).          *)
C24_BiasRoundTrip ==
    dev = "bias" =>
        /\ state.op = "encode" => state.back = state.value
        /\ state.op = "decode" /\ state.kind \in {"vdac", "coarsefine"} => state.back = state.word

C24_Witness ==
    /\ dev = "bias" /\ state.op = "encode" /\ state.kind = "coarsefine"
    /\ state.value.sexN /\ ~state.value.enabled
    /\ state.value.coarseValue = 7 /\ state.value.fineValue = 255
    /\ state.word = 32754
    /\ state.back = state.value

(* C25 (as amended): in the current decoder a Y address unit with data >=  *)
(* sizeY leaves the cached Y unchanged and appends nothing; an X address   *)
(* unit with data >= sizeX appends nothing and changes no packet; an X     *)
(* address unit with data < sizeX, when the polarity packet has room or    *)
(* can be grown, appends exactly one PolarityEvent with polarity = code &  *)
(* 1 and (x, y) = (data, cached Y), or (cached Y, data) when invertXY is   *)
(* set; when growing the packet fails it appends nothing.                  *)
AddressStep(code) ==
    /\ dev = "davis" /\ pc = "loop" /\ unitsLeft' = unitsLeft - 1 /\ ev'.kind = "unit"
    /\ ~IsTimestamp(ev'.unit) /\ Code(ev'.unit) \in code
NothingAppended == state'.log.appended = [t \in PacketTypes |-> 0]
PacketsUnchanged ==
    ~state'.log.commit =>
        \A t \in PacketTypes :
           /\ state'.currentPackets.position[t] = state.currentPackets.position[t]
           /\ state.currentPackets.packet[t] # NULL =>
                  state'.currentPackets.packet[t] = state.currentPackets.packet[t]
PolarityEventsOf(s) ==
    IF s.currentPackets.packet["polarity"] = NULL THEN <<>>
    ELSE s.currentPackets.packet["polarity"].events
ExpectedPolarityEvent ==
    LET data == Data(ev'.unit)
        pol == Code(ev'.unit) % 2
    IN IF state.dvs.invertXY
       THEN PolarityEvent(state.timestamps.current, state.dvs.lastY, data, pol)
       ELSE PolarityEvent(state.timestamps.current, data, state.dvs.lastY, pol)

C25_Step ==
    /\ AddressStep({1}) =>
          /\ NothingAppended
          /\ state'.dvs.lastY = IF Data(ev'.unit) >= state.dvs.sizeY THEN state.dvs.lastY
                                ELSE Data(ev'.unit)
    /\ AddressStep({2, 3}) /\ Data(ev'.unit) >= state.dvs.sizeX =>
          NothingAppended /\ PacketsUnchanged /\ state'.dvs = state.dvs
    /\ AddressStep({2, 3}) /\ Data(ev'.unit) < state.dvs.sizeX =>
          IF "polarity" \in state'.log.refused
          THEN NothingAppended /\ PacketsUnchanged
          ELSE /\ state'.log.appended = [t \in PacketTypes |-> IF t = "polarity" THEN 1 ELSE 0]
               /\ "polarity" \notin state'.log.attached =>
                      PolarityEventsOf(state') = Append(PolarityEventsOf(state), ExpectedPolarityEvent)

C25_AddressChecks == [][C25_Step]_vars

(* C25 as stated: every X address unit inside the sensor appends one       *)
(* PolarityEvent.                                                          *)
C25_AsStated ==
    [][AddressStep({2, 3}) /\ Data(ev'.unit) < state.dvs.sizeX =>
          state'.log.appended["polarity"] = 1]_vars

C25_Witness ==
    /\ dev = "davis" /\ state.dvs.invertXY /\ state.dvs.lastY = 1
    /\ ev.kind = "unit" /\ ev.unit = Unit(2, 2)
    /\ state.log.appended["polarity"] = 1
    /\ state.currentPackets.packet["polarity"] # NULL
    /\ state.currentPackets.packet["polarity"].events = <<PolarityEvent(3, 1, 2, 0)>>

(* C26 (as amended): in the current DAVIS and MIPI decoders, when          *)
(* ensureSpaceForEvents fails to grow the target packet, the events of the *)
(* unit are not written and the packet and its write position are left     *)
(* unchanged; the loop goes on with the next unit of the same buffer,      *)
(* which is decoded, and with the next buffer.                             *)
GrowRefused(s) == s.log.refused # {}
UnitDecoded == ev'.kind = "unit" /\ unitsLeft' = unitsLeft - 1

C26_Step ==
    dev \in {"davis", "mipi"} =>
        /\ pc = "loop" /\ ev'.kind = "unit" /\ GrowRefused(state') =>
              /\ \A t \in state'.log.refused :
                    /\ state'.log.appended[t] = 0
                    /\ state.currentPackets.position[t]
                          = IF state'.log.commit THEN state'.log.atCommit[t]
                            ELSE state'.currentPackets.position[t]
                    /\ ~state'.log.commit /\ state.currentPackets.packet[t] # NULL =>
                          state'.currentPackets.packet[t] = state.currentPackets.packet[t]
              /\ unitsLeft' = unitsLeft - 1
              /\ pc' = IF state'.container.pending.alloc THEN "retry" ELSE AfterUnit(unitsLeft')
              /\ pc' # "idle" => buf'.n = buf.n /\ buf'.pos = buf.pos + UnitBytes
        /\ pc = "loop" /\ GrowRefused(state) =>
              ev'.kind \in {"unit", "allocfail"} /\ (ev'.kind = "unit" => UnitDecoded)
        /\ pc = "idle" /\ GrowRefused(state) /\ running =>
              \E bytesSent \in BufferSizes :
                 /\ ev' = [kind |-> "begin", unit |-> bytesSent]
                 /\ unitsLeft' = LoopIterations(Truncate(bytesSent))

C26_GrowthFailure == [][C26_Step]_vars

(* C26 as stated: after a failed grow no later unit of the buffer is       *)
(* decoded.                                                                *)
RemainderAborted ==
    dev \in {"davis", "mipi"} /\ pc = "loop" /\ ev.kind = "unit" /\ GrowRefused(state) =>
        ~UnitDecoded
C26_AsStated == [][RemainderAborted]_vars

(* A failed grow in the middle of a buffer: a unit is left to decode.      *)
C26_Witness ==
    /\ dev = "mipi" /\ ev.kind = "unit" /\ ev.unit = M_SGROUP(0, 32768)
    /\ state.log.refused = {"polarity"}
    /\ pc = "loop" /\ unitsLeft = 1 /\ buf.pos = UnitBytes
    /\ state.currentPackets.position["polarity"] = 1
    /\ state.currentPackets.packet["polarity"].capacity = MipiDefaultSize

(* C27 (as amended): in the current decoder a frame is appended as a       *)
(* FrameEvent at Frame End only if the column count of every readout phase *)
(* equals expectedCountX; the row count is not part of the validation: a   *)
(* Column End that finds a row count different from expectedCountY still   *)
(* counts its column, and a frame with such a column and complete column   *)
(* counts is appended.                                                     *)
C27_Step ==
    dev = "davis" /\ ~state.aps.ignoreEvents =>
        /\ StepOf(U_COL_END) =>
              LET rt == state.aps.currentReadoutType
              IN /\ state'.aps.countX[rt] = state.aps.countX[rt] + 1
                 /\ state'.rowMismatch
                       = (state.rowMismatch \/ state.aps.countY[rt] # state.aps.expectedCountY)
        /\ StepOf(U_FRAME_END) =>
              /\ state'.log.appended["frame"] = 1 => ColumnsComplete
              /\ ColumnsComplete /\ "frame" \notin state'.log.refused =>
                    state'.log.appended["frame"] = 1
              /\ state'.rowMismatch = state.rowMismatch

C27_ColumnsOnly == [][C27_Step]_vars

(* C27 as stated: a frame with a Column End that found a wrong row count   *)
(* is never appended.                                                      *)
RowMismatchRejected ==
    dev = "davis" /\ StepOf(U_FRAME_END) /\ state.rowMismatch =>
        state'.log.appended["frame"] = 0
C27_AsStated == [][RowMismatchRejected]_vars

C27_Witness ==
    /\ dev = "davis" /\ ev.kind = "unit" /\ ev.unit = U_FRAME_END
    /\ state.rowMismatch /\ state.log.appended["frame"] = 1
    /\ state.aps.countY["SIGNAL"] = 0

(* C28: apsUpdateFrame stores the sample of the first readout phase of a   *)
(* pixel unchanged, and on the second phase stores, for the reset sample r *)
(* and the signal sample s of that pixel, 1023 << 6 when r < 384 or s = 0  *)
(* and min(max(r - s, 0), 1023) << 6 otherwise (16 - APS_ADC_DEPTH = 6).   *)
CdsReset ==
    IF CdsFirstType(state.s) = "RESET" THEN state.first ELSE state.second
CdsSignal ==
    IF CdsFirstType(state.s) = "RESET" THEN state.second ELSE state.first
CdsMin(a, b) == IF a < b THEN a ELSE b
CdsMax(a, b) == IF a > b THEN a ELSE b

C28_DoubleSampling ==
    dev = "cds" =>
        /\ ~state.s.aps.frame.outOfRange
        /\ state.phase = 1 => CdsPixel(state.s) = state.first
        /\ state.phase = 2 =>
              CdsPixel(state.s)
                  = IF CdsReset < 384 \/ CdsSignal = 0 THEN 1023 * 64
                    ELSE CdsMin(CdsMax(CdsReset - CdsSignal, 0), 1023) * 64

C28_Witness ==
    /\ dev = "cds" /\ state.phase = 2
    /\ state.s.info.chipID = "DAVIS640H" /\ state.s.aps.globalShutter
    /\ state.first = 1 /\ state.second = 2047
    /\ CdsPixel(state.s) = 1023 * 64

(* C29: in the current decoder an APS ADC sample unit decoded while APS    *)
(* events are not ignored and the column count of the active readout phase *)
(* is >= expectedCountX or its row count is >= expectedCountY changes      *)
(* nothing of the APS state (pixels, countX, countY, RGB offset tracker)   *)
(* and appends no event.                                                   *)
SampleTooMany(s) ==
    LET rt == s.aps.currentReadoutType
    IN /\ ~s.aps.ignoreEvents
       /\ s.aps.countX[rt] >= s.aps.expectedCountX \/ s.aps.countY[rt] >= s.aps.expectedCountY

C29_Step ==
    dev = "davis" /\ StepOf(U_SAMPLE) /\ SampleTooMany(state) =>
        /\ state'.aps.frame.pixels = state.aps.frame.pixels
        /\ state'.aps.countX = state.aps.countX
        /\ state'.aps.countY = state.aps.countY
        /\ state'.aps.cDavisSupport = state.aps.cDavisSupport
        /\ state'.aps = state.aps
        /\ state'.log.appended = [t \in PacketTypes |-> 0]

C29_SampleIgnored == [][C29_Step]_vars

(* A sample decoded after the only column of the signal phase ended.       *)
C29_Witness ==
    /\ dev = "davis" /\ ev.kind = "unit" /\ ev.unit = U_SAMPLE
    /\ state.info.chipID = "DAVIS640H"
    /\ ~state.aps.ignoreEvents /\ state.aps.currentReadoutType = "SIGNAL"
    /\ state.aps.countX["SIGNAL"] = state.aps.expectedCountX
    /\ state.aps.countY["SIGNAL"] = 0
    /\ state.aps.cDavisSupport.offset = 1

(* C30: the pixel buffer of the frame being read out belongs to the APS    *)
(* reconstruction alone: the pixels of a FrameEvent already written to the *)
(* frame packet are never changed by a later unit, the buffer of a frame   *)
(* that fails validation at Frame End is freed, and the frame that starts  *)
(* next has a fresh (zeroed) buffer that holds nothing of an earlier frame. *)
PixelBuffer(s) ==
    IF dev = "davis" THEN s.aps.frame.pixels ELSE s.aps.currentFrameEvent.pixels
FrameValid(s) ==
    IF dev = "davis" THEN apsEndFrameValid(s) ELSE legacyFrameValid(s)
FrameStartUnits ==
    {Unit(0, 8), Unit(0, 9)} \cup (IF dev = "legacy" THEN {Unit(0, 14), Unit(0, 15)} ELSE {})
EmittedFramesKept ==
    LET p == state.currentPackets.packet["frame"]
        q == state'.currentPackets.packet["frame"]
    IN p # NULL /\ q # NULL /\ q.id = p.id =>
          /\ Len(q.events) >= Len(p.events)
          /\ SubSeq(q.events, 1, Len(p.events)) = p.events

C30_Step ==
    dev \in {"davis", "legacy"} /\ pc = "loop" /\ ev'.kind = "unit" =>
        /\ EmittedFramesKept
        /\ ev'.unit = U_FRAME_END /\ ~state.aps.ignoreEvents /\ ~FrameValid(state) =>
              PixelBuffer(state') = <<>>
        /\ ev'.unit \in FrameStartUnits =>
              \A i \in DOMAIN PixelBuffer(state') : PixelBuffer(state')[i] = 0

C30_BufferOwnership == [][C30_Step]_vars

(* C31: in the current decoder an APS Frame Start leaves every per-phase   *)
(* row and column counter at 0, the phase RESET and ignoreEvents false,    *)
(* and an IMU Start leaves the step counter at 0, ignoreEvents false and   *)
(* the IMU accumulator all zero, whatever the previous burst left; and a   *)
(* FrameEvent that is emitted carries no exposure timestamp that was       *)
(* latched before its own Frame Start.                                     *)
StartResetsCounters ==
    /\ StepOf(U_FRAME_START) =>
          /\ \A i \in ReadoutTypes : state'.aps.countX[i] = 0 /\ state'.aps.countY[i] = 0
          /\ state'.aps.currentReadoutType = "RESET"
          /\ ~state'.aps.ignoreEvents
          /\ state'.aps.frame.tsStartFrame = state.timestamps.current
    /\ StepOf(U_IMU_START) =>
          /\ state'.imu.count = 0 /\ ~state'.imu.ignoreEvents
          /\ state'.imu.currentEvent = ZeroIMU6Event
FrameEmitted == StepOf(U_FRAME_END) /\ state'.log.appended["frame"] = 1
NoEarlierTimestamp ==
    FrameEmitted => \A f \in {"start", "end"} : state.exposure[f] # "earlier"

C31_Step == dev = "davis" => StartResetsCounters /\ NoEarlierTimestamp

C31_PristineStart == [][C31_Step]_vars

(* C32 (as amended): at a Column unit of the MIPI decoder with             *)
(* sub-timestamp sub, the reference last received is advanced by exactly   *)
(* 1000 when sub is smaller than the sub-timestamp of the previous Column  *)
(* unit and the reference in use equals the reference last received, and   *)
(* is left alone otherwise; the reference in use becomes the reference     *)
(* last received when sub differs from the previous sub-timestamp and      *)
(* stays otherwise; current becomes the reference in use plus sub and last *)
(* the previous current.                                                   *)
ColumnStep == dev = "mipitime" /\ ev'.kind = "unit" /\ ev'.unit = 0
ColumnSub == state'.s.timestamps.lastSub
SubDecreased == ColumnSub < state.s.timestamps.lastSub
ReferenceAdvance == state'.s.timestamps.lastReference - state.s.timestamps.lastReference

C32_Step ==
    ColumnStep =>
        LET ts == state.s.timestamps
            tn == state'.s.timestamps
        IN /\ ReferenceAdvance
                 = IF SubDecreased /\ ts.currentReference = ts.lastReference THEN 1000 ELSE 0
           /\ tn.currentReference
                 = IF ColumnSub # ts.lastSub THEN tn.lastReference ELSE ts.currentReference
           /\ tn.current = tn.currentReference + ColumnSub
           /\ tn.last = ts.current

C32_ReferenceLoss == [][C32_Step]_vars

(* C32 as stated: the reference is advanced by 1000 when no Timestamp unit *)
(* came since the previous Column unit and the sub-timestamp decreased,    *)
(* and it is not advanced when a Timestamp unit came or the sub-timestamp  *)
(* did not decrease.                                                       *)
ReferenceLossAsStated ==
    ColumnStep /\ state.columns > 0 =>
        ReferenceAdvance = IF ~state.refSeen /\ SubDecreased THEN 1000 ELSE 0
C32_AsStated == [][ReferenceLossAsStated]_vars

C32_Witness ==
    /\ dev = "mipitime" /\ state.columns = 2 /\ state.steps = 2
    /\ state.s.timestamps.lastSub = 1
    /\ state.s.timestamps.lastReference = 1000
    /\ state.s.timestamps.current = 1001 /\ state.s.timestamps.last = 1023

(* C33 (as amended): an SGROUP unit decoded after the first Column unit,   *)
(* when the polarity packet has room for 16 events or can be grown, writes *)
(* exactly one PolarityEvent per set bit among the low 16 bits of the      *)
(* word, in scan order from bit 15 down to bit 0; the event of scan index  *)
(* i has x = last column address, y = 8 * groupAddr + (7 - (i mod 8)),     *)
(* polarity ON iff i >= 8 and the current timestamp.  A group unit decoded *)
(* before any Column unit, or when growing the packet fails, writes        *)
(* nothing.                                                                *)
GroupStep ==
    /\ dev = "mipi" /\ pc = "loop" /\ unitsLeft' = unitsLeft - 1
    /\ ev'.kind = "unit" /\ ev'.unit < 0
ScanSet == {i \in 0..15 : Bit(ev'.unit, 15 - i) = 1}
ScanRank(i) == Cardinality({k \in ScanSet : k < i}) + 1
GroupEvent(i) ==
    [timestamp |-> state.timestamps.current,
     polarity |-> IF i >= 8 THEN 1 ELSE 0,
     x |-> state.dvs.lastX,
     y |-> 8 * Bits(ev'.unit, 18, 6) + (7 - (i % 8))]
GroupWritten ==
    /\ Len(state'.written) = Cardinality(ScanSet)
    /\ state'.log.appended["polarity"] = Cardinality(ScanSet)
    /\ \A i \in ScanSet : state'.written[ScanRank(i)] = GroupEvent(i)
C33_Step ==
    GroupStep =>
        IF ~state.columnSeen \/ "polarity" \in state'.log.refused
        THEN state'.written = <<>> /\ NothingAppended
        ELSE GroupWritten

C33_GroupDecoding == [][C33_Step]_vars

(* C33 as stated: every SGROUP unit decoded after the first Column unit    *)
(* writes one PolarityEvent per set bit.                                   *)
GroupWrittenAsStated ==
    GroupStep /\ state.columnSeen => Len(state'.written) = Cardinality(ScanSet)
C33_AsStated == [][GroupWrittenAsStated]_vars

C33_Witness ==
    /\ dev = "mipi" /\ state.columnSeen /\ ev.kind = "unit" /\ ev.unit = M_SGROUP(1, 65535)
    /\ Len(state.written) = 16
    /\ state.written[1].y = 15 /\ state.written[1].polarity = 0
    /\ state.written[16].y = 8 /\ state.written[16].polarity = 1

(* C34: in the current DAVIS decoder the commit triggers are evaluated in  *)
(* every loop iteration that decodes a unit; when the maximum container    *)
(* packet size M is > 0 and a write position has reached M after the unit  *)
(* was decoded, the packets are attached and the Container is handed over  *)
(* in that same iteration, which leaves every write position at 0; so at   *)
(* the start and at the end of every unit every write position is < M.     *)
PositionsBelow(s) ==
    \A t \in PacketTypes :
       s.currentPackets.position[t] < containerGenerationGetMaxPacketSize(s.container)
DecodedPosition(t) ==
    IF state'.log.commit THEN state'.log.atCommit[t] ELSE state'.currentPackets.position[t]
SizeReached ==
    /\ containerGenerationGetMaxPacketSize(state.container) > 0
    /\ \E t \in PacketTypes :
          DecodedPosition(t) >= containerGenerationGetMaxPacketSize(state.container)
C34_Step ==
    dev = "davis" /\ pc = "loop" /\ unitsLeft' = unitsLeft - 1 /\ ev'.kind = "unit" =>
        /\ PositionsBelow(state)
        /\ PositionsBelow(state')
        /\ SizeReached =>
               /\ state'.log.commit /\ state'.log.attached # {}
               /\ state'.log.sealed + state'.log.dropped >= 1
               /\ \A t \in PacketTypes : state'.currentPackets.position[t] = 0

C34_SizeTrigger == [][C34_Step]_vars

C34_Witness ==
    /\ dev = "davis" /\ ev.kind = "unit" /\ state.log.commit /\ ~state.log.forced
    /\ state.log.atCommit["polarity"] = MaxPacketSize
    /\ state.currentPackets.position["polarity"] = 0
    /\ state.timestamps.current - state.container.commitTimestamp <= MaxInterval

(* C35: in the DAVIS decoders every event is written into a packet whose   *)
(* time-epoch offset (the wrapOverflow value the packet was allocated      *)
(* with) equals wrapOverflow when the event is written; the events of the  *)
(* wrap and reset units themselves, which close the old epoch, are set     *)
(* apart.                                                                  *)
EpochStep ==
    /\ dev \in {"davis", "legacy"} /\ pc = "loop" /\ unitsLeft' = unitsLeft - 1
    /\ ev'.kind = "unit" /\ ~IsWrap(ev'.unit) /\ ev'.unit # U_TS_RESET
EpochTagged ==
    EpochStep =>
        \A t \in PacketTypes :
           state'.log.appended[t] > 0 /\ state.currentPackets.packet[t] # NULL =>
               state.currentPackets.packet[t].tsOverflow = state.timestamps.wrapOverflow

C35_EpochTagging == [][EpochTagged]_vars

(* C36: in the legacy DAVIS decoder wrapAdd is always a multiple of 0x8000 *)
(* with 0 <= wrapAdd <= INT32_MAX - 0x7FFF, and a timestamp unit sets      *)
(* lastTimestamp to the previous currentTimestamp and currentTimestamp to  *)
(* wrapAdd + (unit & 0x7FFF), a value between 0 and INT32_MAX, so the      *)
(* 32-bit signed addition does not overflow.                               *)
TimestampsInRange(s) ==
    /\ s.timestamps.wrapAdd % 32768 = 0
    /\ 0 <= s.timestamps.wrapAdd /\ s.timestamps.wrapAdd <= INT32_MAX - 32767
    /\ 0 <= s.timestamps.current /\ s.timestamps.current <= INT32_MAX
    /\ 0 <= s.timestamps.last /\ s.timestamps.last <= INT32_MAX
TimestampStep ==
    /\ dev = "legacy" /\ pc = "loop" /\ unitsLeft' = unitsLeft - 1
    /\ ev'.kind = "unit" /\ IsTimestamp(ev'.unit)
C36_Step ==
    /\ dev = "legacy" => TimestampsInRange(state) /\ TimestampsInRange(state')
    /\ TimestampStep =>
          /\ state'.timestamps.last = state.timestamps.current
          /\ state'.timestamps.current = state.timestamps.wrapAdd + (ev'.unit % 32768)
          /\ state'.timestamps.wrapAdd = state.timestamps.wrapAdd

C36_TimestampRange == [][C36_Step]_vars

C36_Witness ==
    /\ dev = "legacy" /\ ev.kind = "unit" /\ ev.unit = 65535
    /\ state.timestamps.wrapAdd = INT32_MAX - 32767
    /\ state.timestamps.current = INT32_MAX

(* C37: in every interleaving of the legacy producer with the consumer the *)
(* decrease notifications issued so far never exceed the increase          *)
(* notifications issued so far: the external occupancy counter, which      *)
(* starts at zero, never goes negative.                                    *)
C37_OccupancyNeverNegative == dev = "legacy" => notify >= 0

(* C38: davisCommonDataStop terminates: once it has cleared the run flag,  *)
(* the acquisition thread eventually leaves the translator and             *)
(* pthread_join returns, also when the thread is retrying the insertion of *)
(* a forced Container into a full ring buffer.  (A run that reaches the    *)
(* bound on the number of decoded units is not counted.)                   *)
StopWaiting == dev = "legacy" /\ cons.pc = "join"
StopJoined == pc \in {"joined", "stopped"}
UnitBoundReached == pc = "loop" /\ state.unitNo >= MaxSteps
C38_StopTerminates == StopWaiting ~> (StopJoined \/ UnitBoundReached)

(* C39: in the current DAVIS decoder the start-of-exposure and the         *)
(* end-of-exposure timestamp of every emitted FrameEvent were latched by   *)
(* Exposure Start / Exposure End units decoded between that frame's Frame  *)
(* Start and its Frame End, and tsStartOfFrame <= tsStartOfExposure <=     *)
(* tsEndOfExposure <= tsEndOfFrame (the timestamps of these unit sequences *)
(* never decrease).                                                        *)
ExposureInFrame == \A f \in {"start", "end"} : state.exposure[f] = "current"
ExposureOrdered ==
    /\ state.aps.frame.tsStartFrame <= state.aps.frame.tsStartExposure
    /\ state.aps.frame.tsStartExposure <= state.aps.frame.tsEndExposure
    /\ state.aps.frame.tsEndExposure <= state.timestamps.current
C39_Step == dev = "davis" /\ FrameEmitted => ExposureInFrame /\ ExposureOrdered

C39_ExposureWithinFrame == [][C39_Step]_vars

(* C40 (as amended): whenever ensureSpaceForEvents returns true for a      *)
(* packet of capacity >= numEvents, a position <= capacity and numEvents   *)
(* in {1, 16}, position + numEvents <= the packet's capacity afterwards;   *)
(* the capacity is unchanged when there was room and doubled once          *)
(* otherwise, and a call that returns false leaves the packet as it was.   *)
EnsureRoom == state.position + state.numEvents <= state.after.capacity
====
